---- MODULE Spec2Model ----
(***************************************************************************)
(* UPS workitem lifecycle of the routing node: the workitem entity         *)
(* (ups/workitem.py), the key-value workitem store (ups/storage.py), the   *)
(* subscription registry (ups/subscription_storage.py), the notification   *)
(* fan-out and the processing pipeline (ups/processor.py) and the UPS-RS   *)
(* REST handlers (ups/routes.py).                                          *)
(***************************************************************************)
EXTENDS Integers, Sequences, FiniteSets, TLC

(* ------------------------------------------------------------------ *)
(* Universe of the model                                               *)
(* ------------------------------------------------------------------ *)

\* Workitem UIDs that generate_uid() may hand out.
WorkitemUIDs == {"1.2.826.0.1"}

\* Callback URLs of the nodes that may subscribe.
SubscriberURLs == {"http://viewer-a:8042", "http://viewer-b:8042"}

\* The callback URL of the viewer node, which keeps a copy of every workitem
\* it is notified of.
ViewerURL == "http://orthanc-viewer:8042"

\* Largest number of series in a create request (0 .. MaxSeries).
MaxSeries == 1

States == {"SCHEDULED", "IN_PROGRESS", "COMPLETED", "CANCELED"}

Terminal == {"COMPLETED", "CANCELED"}

(* ------------------------------------------------------------------ *)
(* Python values passed as optional arguments                          *)
(* ------------------------------------------------------------------ *)

PyNone == [kind |-> "none", int |-> 0, str |-> ""]

PyInt(n) == [kind |-> "int", int |-> n, str |-> ""]

PyText(s) == [kind |-> "str", int |-> 0, str |-> s]

\* Truthiness as tested by "if x:".
PyTruthy(v) ==
    \/ v.kind = "int" /\ v.int # 0
    \/ v.kind = "str" /\ v.str # ""

Digit == <<"0", "1", "2", "3", "4", "5", "6", "7", "8", "9">>

RECURSIVE IntToStr(_)
\* str(n) of a natural number: its decimal digits.
IntToStr(n) ==
    IF n < 10 THEN Digit[n + 1]
    ELSE IntToStr(n \div 10) \o Digit[(n % 10) + 1]

\* str(v) as applied to the progress_percent argument.
PyStr(v) ==
    IF v.kind = "int" THEN IntToStr(v.int)
    ELSE IF v.kind = "str" THEN v.str
    ELSE "None"

(* ------------------------------------------------------------------ *)
(* Workitem entity (UPSWorkitem)                                       *)
(* An absent key of the DICOM JSON dict is the empty sequence <<>>,    *)
(* a present one a one-element sequence holding its value.             *)
(* ------------------------------------------------------------------ *)

\* _create_dicom_json: the attribute dict of a fresh workitem.
CreateDicomJson(nSeries) ==
    [state    |-> "SCHEDULED",   \* 00741000 ProcedureStepState
     priority |-> "MEDIUM",      \* 00741200
     series   |-> nSeries,       \* 00404021 Input Information Sequence (length)
     progress |-> <<>>,          \* 00741002 Progress Information Sequence
     cancelDT |-> FALSE,         \* 00404052 Cancellation DateTime present
     reason   |-> <<>>,          \* 00741238 Reason For Cancellation
     outputs  |-> 0]             \* 00404033 Output Information Sequence (length)

\* UPSWorkitem.__init__
NewWorkitem(uid, nSeries) ==
    [uid |-> uid, viewer_url |-> <<>>, data |-> CreateDicomJson(nSeries)]

\* The progress item built by update_state from its optional arguments.
ProgressItem(progress_percent, progress_description) ==
    [percent |-> IF progress_percent.kind # "none"
                 THEN <<PyStr(progress_percent)>> ELSE <<>>,
     desc    |-> IF PyTruthy(progress_description)
                 THEN <<progress_description.str>> ELSE <<>>]

\* UPSWorkitem.update_state on the attribute dict d.
UpdateData(d, new_state, progress_percent, progress_description, cancellation_reason) ==
    LET d1 == IF new_state # "" THEN [d EXCEPT !.state = new_state] ELSE d
        item == ProgressItem(progress_percent, progress_description)
        d2 == IF /\ d1.state = "IN_PROGRESS"
                 /\ (progress_percent.kind # "none" \/ progress_description.kind # "none")
                 /\ (item.percent # <<>> \/ item.desc # <<>>)
              THEN [d1 EXCEPT !.progress = <<item>>]
              ELSE d1
        d3 == IF new_state = "CANCELED"
              THEN [d2 EXCEPT !.cancelDT = TRUE,
                              !.reason = IF PyTruthy(cancellation_reason)
                                         THEN <<cancellation_reason.str>> ELSE @]
              ELSE d2
    IN d3

\* UPSWorkitem.update_state on a workitem object.
update_state(o, new_state, progress_percent, progress_description, cancellation_reason) ==
    [o EXCEPT !.data = UpdateData(@, new_state, progress_percent,
                                  progress_description, cancellation_reason)]

\* UPSWorkitem.to_json: only the attribute dict is serialised.
to_json(o) == o.data

\* UPSWorkitem.from_json: a bare instance with the uid and the decoded dict.
from_json(json, uid) == [uid |-> uid, data |-> json]

get_state(o) == o.data.state

\* A get_wado_rs_urls that always finds a retrieval location.
GetUrlsNeverEmpty(o) == IF o.data.series = 0 THEN 1 ELSE o.data.series

\* get_wado_rs_urls: one retrieval location per input series.
get_wado_rs_urls(o) == o.data.series

(* ------------------------------------------------------------------ *)
(* Workitem store (UPSStorage) over the key-value store                *)
(* ------------------------------------------------------------------ *)

\* Membership test "uid in index" on the decoded index list.
InIndex(uid, idx) == \E i \in 1..Len(idx) : idx[i] = uid

\* What the key-value store does during one store_workitem call:
\* rec: StoreKeyValue of the record returns (FALSE: it raises);
\* idxRead: GetKeyValue/json.loads of the index succeeds (FALSE: it raises
\*          and _get_index answers []);
\* idxWrite: StoreKeyValue of the index returns (FALSE: it raises).
StoreOutcomes ==
    {[rec |-> TRUE,  idxRead |-> TRUE,  idxWrite |-> TRUE],
     [rec |-> FALSE, idxRead |-> TRUE,  idxWrite |-> TRUE],
     [rec |-> TRUE,  idxRead |-> FALSE, idxWrite |-> TRUE],
     [rec |-> TRUE,  idxRead |-> TRUE,  idxWrite |-> FALSE],
     [rec |-> TRUE,  idxRead |-> FALSE, idxWrite |-> FALSE]}

StoreOk == [rec |-> TRUE, idxRead |-> TRUE, idxWrite |-> TRUE]

\* UPSStorage._get_index: the stored list, or [] when the read fails.
GetIndex(idx, readOk) == IF readOk THEN idx ELSE <<>>

\* UPSStorage.store_workitem followed by _add_to_index.
\* Answers the new record map, the new index and whether the call raised.
store_workitem(kvs, idx, o, out) ==
    IF ~out.rec
    THEN [kv |-> kvs, index |-> idx, raised |-> TRUE]
    ELSE LET kv1 == [kvs EXCEPT ![o.uid] = <<to_json(o)>>]
             read == GetIndex(idx, out.idxRead)
         IN IF InIndex(o.uid, read)
            THEN [kv |-> kv1, index |-> idx, raised |-> FALSE]
            ELSE IF out.idxWrite
                 THEN [kv |-> kv1, index |-> Append(read, o.uid), raised |-> FALSE]
                 ELSE [kv |-> kv1, index |-> idx, raised |-> TRUE]

\* What reading and decoding one key may do: TRUE, GetKeyValue answers and
\* the bytes decode; FALSE, one of them raises.
ReadOutcomes == BOOLEAN

\* UPSStorage.get_workitem: <<>> for None, else the decoded workitem. None
\* is also the answer when the read or the decoding raises.
get_workitem(kvs, uid, readOk) ==
    IF ~readOk THEN <<>>
    ELSE IF kvs[uid] = <<>> THEN <<>>
    ELSE <<from_json(kvs[uid][1], uid)>>

RECURSIVE ListFrom(_, _, _, _)
\* The loop of list_workitems over the UIDs of the index; state is <<>> for
\* no filter, recOk tells for each UID whether its read succeeds.
ListFrom(kvs, ids, state, recOk) ==
    IF ids = <<>> THEN <<>>
    ELSE LET o == get_workitem(kvs, Head(ids), recOk[Head(ids)])
             rest == ListFrom(kvs, Tail(ids), state, recOk)
         IN IF o # <<>> /\ (state = <<>> \/ get_state(o[1]) = state[1])
            THEN <<o[1]>> \o rest
            ELSE rest

\* UPSStorage.list_workitems
list_workitems(kvs, idx, state, idxOk, recOk) ==
    ListFrom(kvs, GetIndex(idx, idxOk), state, recOk)

(* ------------------------------------------------------------------ *)
(* Subscription registry and notification fan-out                      *)
(* The bucket "ups_subscriptions" is a set of keys, one per (uid, url)  *)
(* pair, and the list under GLOBAL_KEY. Its key-value calls are taken   *)
(* to succeed, but for DeleteKeyValue of a key that is absent.          *)
(* ------------------------------------------------------------------ *)

Range(s) == {s[i] : i \in 1..Len(s)}

\* get_subscribers without the test of the key's workitem UID.
GetSubscribersAnyWorkitem(subscriptions, globals, uid) ==
    {k[2] : k \in subscriptions} \cup Range(globals)

\* UPSSubscriptionStorage.get_subscribers: per-workitem keys and the global
\* list, duplicates removed.
get_subscribers(subscriptions, globals, uid) ==
    {k[2] : k \in {s \in subscriptions : s[1] = uid}} \cup Range(globals)

\* UPSSubscriptionStorage.add_subscription: StoreKeyValue under the key of
\* the pair, which overwrites what the key held.
add_subscription(subscriptions, uid, url) == subscriptions \cup {<<uid, url>>}

\* What DeleteKeyValue may do: delete a key that is present; for a key that
\* is absent, return or raise.
DeleteOutcomes(present) == IF present THEN {"deleted"} ELSE {"noop", "raises"}

\* remove_subscription with its try/except removed.
RemoveSubscriptionUnguarded(subscriptions, uid, url, outcome) ==
    [subs |-> IF outcome = "deleted" THEN subscriptions \ {<<uid, url>>} ELSE subscriptions,
     raised |-> outcome = "raises"]

\* UPSSubscriptionStorage.remove_subscription: DeleteKeyValue of the pair's
\* key; an exception is caught and logged.
remove_subscription(subscriptions, uid, url, outcome) ==
    [subs |-> IF outcome = "deleted" THEN subscriptions \ {<<uid, url>>} ELSE subscriptions,
     raised |-> FALSE]

\* UPSSubscriptionStorage.add_global_subscription: append when absent.
add_global_subscription(globals, url) ==
    IF url \in Range(globals) THEN globals ELSE Append(globals, url)

\* Outcome of one notification POST.
DeliveryOutcomes == {"200", "non200", "exception"}

\* notify_subscriber with its try/except removed.
NotifySubscriberUnguarded(outcome) ==
    [delivered |-> outcome = "200", raised |-> outcome = "exception"]

\* notify_subscriber: the POST is made; every failure is caught and logged.
notify_subscriber(outcome) ==
    [delivered |-> outcome = "200", raised |-> FALSE]

RECURSIVE NotifyLoop(_, _, _)
\* The for loop of notify_all_subscribers over the subscribers in `order`.
NotifyLoop(order, outcome, acc) ==
    IF order = <<>> \/ acc.raised THEN acc
    ELSE LET u == Head(order)
             r == notify_subscriber(outcome[u])
         IN NotifyLoop(Tail(order), outcome,
                       [attempted |-> acc.attempted \cup {u},
                        delivered |-> acc.delivered \cup (IF r.delivered THEN {u} ELSE {}),
                        raised    |-> r.raised])

\* notify_all_subscribers: `order` is the order list(set(...)) yields.
notify_all_subscribers(order, outcome) ==
    NotifyLoop(order, outcome, [attempted |-> {}, delivered |-> {}, raised |-> FALSE])

\* All orders in which a set of subscribers may be visited.
Orders(S) ==
    {q \in UNION {[1..n -> S] : n \in {Cardinality(S)}} :
        \A i, j \in 1..Len(q) : i # j => q[i] # q[j]}

\* The choices of the environment for one fan-out: an order and an outcome
\* per subscriber.
NotifyChoices(S) ==
    {[order |-> q, outcome |-> f] : q \in Orders(S), f \in [S -> DeliveryOutcomes]}

(* ------------------------------------------------------------------ *)
(* State                                                               *)
(* ------------------------------------------------------------------ *)

VARIABLES
    pc,            \* per UID: position of its background pipeline thread
    wi,            \* per UID: <<>> or <<the in-memory UPSWorkitem of the thread>>
    kv,            \* bucket "ups": per UID <<>> or <<stored JSON>>
    index,         \* bucket "ups": the list under INDEX_KEY
    subs,          \* bucket "ups_subscriptions": the (uid, url) keys
    globalSubs,    \* bucket "ups_subscriptions": the list under GLOBAL_KEY
    modelResponse, \* per UID: what the inference backend answered
    pending,       \* per UID: dicom_objects_to_upload still to be posted
    trace,         \* per UID: what its pipeline run did, in order
    lastDelivery,  \* the most recent notification fan-out
    raised,        \* per UID: process_workitem raised to its caller
    reply,         \* the answer to the most recent request or direct call
    awaiting,      \* the UIDs whose CreateWorkitem handler has not answered yet
    started,       \* per UID: the number of pipeline threads started for it
    call,          \* per UID: the store_workitem call it has in progress
    aiResults,     \* feedback database: the rows of ai_result_ref, in insertion order
    events,        \* feedback database: the rows of feedback_event, in insertion order
    now,           \* the wall clock strftime('now') reads
    req,           \* per client: the feedback call it has in progress
    subscribing,   \* per UID: the SubscribeToWorkitem request of the viewer in progress
    mirror,        \* per UID: <<>> or <<the record the viewer stored for it>>
    missed         \* per UID: a notification POST to the viewer was not answered 200

\* The state of the feedback subsystem.
feedback == <<aiResults, events, now, req>>

\* The viewer node as a subscriber.
viewer == <<subscribing, mirror, missed>>

vars == <<pc, wi, kv, index, subs, globalSubs, modelResponse, pending,
          trace, lastDelivery, raised, reply, awaiting, started, call, feedback, viewer>>

\* An answer: the handler or function that gave it, the UID it was about,
\* the HTTP status (or "returned" / "raised" for a direct call) and the body.
Reply(op, uid, status, body) == [op |-> op, uid |-> uid, status |-> status, body |-> body]

NoReply == Reply("", "", "", <<>>)

\* The client threads that call the feedback subsystem.
Clients == {"client-1", "client-2"}

\* No feedback call in progress.
NoRequest ==
    [op |-> "", step |-> "idle", key |-> "", user |-> "", verdict |-> 0,
     edited |-> PyNone, meta |-> <<>>, before |-> <<>>, inserted |-> FALSE]

\* No subscription request of the viewer in progress.
NoSubscribe == [step |-> "idle", found |-> <<>>]

\* No store_workitem call in progress.
NoCall == [step |-> "idle", n |-> 0, seen |-> <<>>]

\* One entry of a run's trace: a record write ("persist"), a store_workitem
\* call that raised ("store_raised"), a fan-out ("notify") or a network call
\* ("infer", "retrieve", "upload").
Event(op, o, info, res) == [op |-> op, snap |-> o.data, info |-> info, res |-> res]

\* The record of one fan-out (notify_all_subscribers, kind "fanout") or of the
\* single push of a new subscription (kind "push"): the subscribers resolved,
\* what each POST did, who was tried and who got the snapshot, and the
\* snapshot posted (workitem.to_json()).
Delivery(uid, kind, S, outcome, r, snap) ==
    [uid |-> uid, kind |-> kind, subscribers |-> S, outcome |-> outcome,
     attempted |-> r.attempted, delivered |-> r.delivered, snap |-> snap]

NoDelivery ==
    Delivery("", "none", {}, [u \in {} |-> "200"], [attempted |-> {}, delivered |-> {}], <<>>)

\* UPSUpdateWorkitem of the viewer: the body of a notification POST that is
\* answered 200 was stored as the viewer's record, whatever it held.
Receive(m, d) ==
    IF ViewerURL \in d.delivered THEN [m EXCEPT ![d.uid] = d.snap] ELSE m

\* A POST to the viewer that was made and not answered 200.
Missed(f, d) ==
    IF ViewerURL \in d.attempted \ d.delivered THEN [f EXCEPT ![d.uid] = TRUE] ELSE f

NoResponse == [status |-> "none", json |-> FALSE, bilateral |-> FALSE, attention |-> "absent"]

\* The node after start-up, for the set U of UIDs generate_uid() may hand
\* out: both buckets of the key-value store are empty.
InitOver(U) ==
    /\ pc = [w \in U |-> "none"]
    /\ wi = [w \in U |-> <<>>]
    /\ kv = [w \in U |-> <<>>]
    /\ index = <<>>
    /\ subs = {}
    /\ globalSubs = <<>>
    /\ modelResponse = [w \in U |-> NoResponse]
    /\ pending = [w \in U |-> <<>>]
    /\ trace = [w \in U |-> <<>>]
    /\ lastDelivery = NoDelivery
    /\ raised = [w \in U |-> FALSE]
    /\ reply = NoReply
    /\ awaiting = {}
    /\ started = [w \in U |-> 0]
    /\ call = [w \in U |-> NoCall]
    /\ aiResults = <<>>
    /\ events = <<>>
    /\ now = 0
    /\ req = [t \in Clients |-> NoRequest]
    /\ subscribing = [w \in U |-> NoSubscribe]
    /\ mirror = [w \in U |-> <<>>]
    /\ missed = [w \in U |-> FALSE]

Init == InitOver(WorkitemUIDs)

(* ------------------------------------------------------------------ *)
(* Pipeline (process_workitem): helpers on the run's context           *)
(* ------------------------------------------------------------------ *)

\* The part of the state one step of the run of w reads and writes.
Ctx(w) ==
    [o |-> wi[w][1], kv |-> kv, index |-> index, tr |-> trace[w],
     ld |-> lastDelivery, exc |-> FALSE, raised |-> raised[w]]

\* ups_storage.store_workitem(workitem) inside the run; exc: it raised.
Persist(c, out) ==
    LET r == store_workitem(c.kv, c.index, c.o, out)
        t1 == IF out.rec THEN Append(c.tr, Event("persist", c.o, "", "")) ELSE c.tr
        t2 == IF r.raised THEN Append(t1, Event("store_raised", c.o, "", "")) ELSE t1
    IN [c EXCEPT !.kv = r.kv, !.index = r.index, !.exc = r.raised, !.tr = t2]

\* A run that gives up as soon as one delivery of a fan-out fails.
NotifyCancelling(c, S, n) ==
    LET r == notify_all_subscribers(n.order, n.outcome)
    IN [c EXCEPT !.tr = Append(@, Event("notify", c.o, "", "")),
                 !.ld = Delivery(c.o.uid, "fanout", S, n.outcome, r, <<to_json(c.o)>>),
                 !.exc = \E u \in S : n.outcome[u] # "200"]

\* notify_all_subscribers(workitem) inside the run. An exception leaving the
\* fan-out would leave the step that called it.
Notify(c, S, n) ==
    LET r == notify_all_subscribers(n.order, n.outcome)
    IN [c EXCEPT !.tr = Append(@, Event("notify", c.o, "", "")),
                 !.ld = Delivery(c.o.uid, "fanout", S, n.outcome, r, <<to_json(c.o)>>),
                 !.exc = r.raised]

\* A cancellation that records the message and leaves the state as it is.
CancelLeavingState(c, error_msg) ==
    [c EXCEPT !.o = update_state(@, "", PyText(error_msg), PyNone, PyNone)]

\* workitem.update_state("CANCELED", error_msg): the message is the second
\* positional argument.
Cancel(c, error_msg) ==
    [c EXCEPT !.o = update_state(@, "CANCELED", PyText(error_msg), PyNone, PyNone)]

\* The outermost handler with its inner try/except removed.
OuterHandlerUnguarded(c, out) ==
    LET c1 == Persist(Cancel(c, "Unexpected error processing workitem"), out)
    IN [c1 EXCEPT !.raised = c1.exc, !.exc = FALSE]

\* except Exception at the outermost level: a best-effort CANCELED record,
\* any failure of which is swallowed.
OuterHandler(c, out) ==
    LET c1 == Persist(Cancel(c, "Unexpected error processing workitem"), out)
    IN [c1 EXCEPT !.exc = FALSE]

\* The end of one step of the run of w: the context becomes the state. An
\* exception no handler caught leaves process_workitem.
Finish(w, c, next) ==
    /\ wi' = [wi EXCEPT ![w] = <<c.o>>]
    /\ kv' = c.kv
    /\ index' = c.index
    /\ trace' = [trace EXCEPT ![w] = c.tr]
    /\ lastDelivery' = c.ld
    /\ raised' = [raised EXCEPT ![w] = c.raised \/ c.exc]
    /\ pc' = [pc EXCEPT ![w] = next]
    /\ mirror' = Receive(mirror, c.ld)
    /\ missed' = Missed(missed, c.ld)
    /\ UNCHANGED <<reply, awaiting, started, call, feedback, subscribing>>

\* An exception reached the outermost except clause.
OuterHandlerStep(w, c) ==
    \E out \in StoreOutcomes : Finish(w, OuterHandler(c, out), "done")

\* update_state("CANCELED", msg); store; notify; return - the body shared by
\* the non-200 branch and the two inner except clauses. A store that raises
\* there propagates to the outermost handler.
CancelAndReturn(w, c, error_msg) ==
    \E out \in StoreOutcomes :
        LET c1 == Persist(Cancel(c, error_msg), out)
        IN IF c1.exc
           THEN OuterHandlerStep(w, c1)
           ELSE \E n \in NotifyChoices(get_subscribers(subs, globalSubs, w)) :
                    Finish(w, Notify(c1, get_subscribers(subs, globalSubs, w), n), "done")

\* if model_response.status_code != 200
ModelErrorBranch(w, c) == CancelAndReturn(w, c, "Model error")

\* except requests.exceptions.RequestException
NetworkErrorHandler(w, c) == CancelAndReturn(w, c, "Network error calling model")

\* except Exception around the result processing
ResultsErrorHandler(w, c) == CancelAndReturn(w, c, "Error processing results")

(* ------------------------------------------------------------------ *)
(* Pipeline (process_workitem): the steps                              *)
(* ------------------------------------------------------------------ *)

CheckpointPcs == {"cp10", "cp20", "cp30", "cp50", "cp70", "cp85", "cp95"}

\* The percentages with the one of "Retrieving source images" mistyped.
CheckpointPercentRegressing(p) ==
    CASE p = "cp10" -> 10
      [] p = "cp20" -> 20
      [] p = "cp30" -> 30
      [] p = "cp50" -> 50
      [] p = "cp70" -> 7
      [] p = "cp85" -> 85
      [] p = "cp95" -> 95

\* progress_percent of each IN_PROGRESS checkpoint.
CheckpointPercent(p) ==
    CASE p = "cp10" -> 10
      [] p = "cp20" -> 20
      [] p = "cp30" -> 30
      [] p = "cp50" -> 50
      [] p = "cp70" -> 70
      [] p = "cp85" -> 85
      [] p = "cp95" -> 95

\* progress_description of each IN_PROGRESS checkpoint.
CheckpointDescription(p) ==
    CASE p = "cp10" -> "Starting AI inference"
      [] p = "cp20" -> "Retrieved study metadata"
      [] p = "cp30" -> "Sending data to AI model"
      [] p = "cp50" -> "AI model analyzing data"
      [] p = "cp70" -> "Retrieving source images"
      [] p = "cp85" -> "Creating DICOM results"
      [] p = "cp95" -> "Uploading results to viewer"

\* The order of the steps with the "Retrieved study metadata" checkpoint
\* left out.
AfterCheckpointSkipping(p) ==
    CASE p = "cp10" -> "cp30"
      [] p = "cp20" -> "cp30"
      [] p = "cp30" -> "infer"
      [] p = "cp50" -> "check"
      [] p = "cp70" -> "retrieve"
      [] p = "cp85" -> "create"
      [] p = "cp95" -> "upload"

\* What the thread does after each checkpoint.
AfterCheckpoint(p) ==
    CASE p = "cp10" -> "cp20"
      [] p = "cp20" -> "cp30"
      [] p = "cp30" -> "infer"
      [] p = "cp50" -> "check"
      [] p = "cp70" -> "retrieve"
      [] p = "cp85" -> "create"
      [] p = "cp95" -> "upload"

\* The checkpoints inside the try block of the result processing, whose
\* except clause catches every Exception.
InResultsTry(p) == p \in {"cp70", "cp85", "cp95"}

\* update_state("IN_PROGRESS", percent, description); store; notify.
Checkpoint(w) ==
    /\ pc[w] \in CheckpointPcs
    /\ LET p == pc[w]
           c0 == [Ctx(w) EXCEPT !.o = update_state(@, "IN_PROGRESS",
                                                   PyInt(CheckpointPercent(p)),
                                                   PyText(CheckpointDescription(p)),
                                                   PyNone)]
       IN \E out \in StoreOutcomes :
            LET c1 == Persist(c0, out)
            IN IF c1.exc
               THEN IF InResultsTry(p)
                    THEN ResultsErrorHandler(w, c1)
                    ELSE OuterHandlerStep(w, c1)
               ELSE \E n \in NotifyChoices(get_subscribers(subs, globalSubs, w)) :
                        Finish(w, Notify(c1, get_subscribers(subs, globalSubs, w), n),
                               AfterCheckpoint(p))
    /\ UNCHANGED <<subs, globalSubs, modelResponse, pending>>

\* What requests.post to MODEL_BACKEND_URL/analyze/mri may produce: a
\* response (its status, whether the body is JSON, and the keys of the
\* decoded body) or a RequestException.
ModelOutcomes ==
    {[status |-> "exception", json |-> FALSE, bilateral |-> FALSE, attention |-> "absent"],
     [status |-> "non200", json |-> FALSE, bilateral |-> FALSE, attention |-> "absent"],
     [status |-> "200", json |-> FALSE, bilateral |-> FALSE, attention |-> "absent"]}
    \cup {[status |-> "200", json |-> TRUE, bilateral |-> b, attention |-> a] :
            b \in BOOLEAN, a \in {"absent", "empty", "data"}}

\* model_response = requests.post(..., timeout=1000)
CallModel(w) ==
    /\ pc[w] = "infer"
    /\ \E r \in ModelOutcomes :
         LET c0 == [Ctx(w) EXCEPT !.tr = Append(@, Event("infer", wi[w][1], r.status, ""))]
         IN /\ modelResponse' = [modelResponse EXCEPT ![w] = r]
            /\ IF r.status = "exception"
               THEN NetworkErrorHandler(w, c0)
               ELSE Finish(w, c0, "cp50")
    /\ UNCHANGED <<subs, globalSubs, pending>>

\* The status test, model_response.json() and the first_retrieval test.
\* A body that is not JSON raises JSONDecodeError, which is a
\* RequestException in some versions of requests and a plain ValueError in
\* others.
CheckResponse(w) ==
    /\ pc[w] = "check"
    /\ LET r == modelResponse[w]
           c0 == Ctx(w)
       IN IF r.status # "200"
          THEN ModelErrorBranch(w, c0)
          ELSE IF ~r.json
               THEN \/ NetworkErrorHandler(w, c0)
                    \/ OuterHandlerStep(w, c0)
               ELSE IF get_wado_rs_urls(c0.o) = 0
                    THEN ResultsErrorHandler(w, c0)
                    ELSE Finish(w, c0, "cp70")
    /\ UNCHANGED <<subs, globalSubs, modelResponse, pending>>

\* The WADO-RS GET of the first retrieval location and the parse of its
\* multipart body; every failure is re-raised as an Exception.
RetrieveSource(w) ==
    /\ pc[w] = "retrieve"
    /\ \E r \in {"ok", "failed"} :
         LET c0 == [Ctx(w) EXCEPT !.tr = Append(@, Event("retrieve", wi[w][1], r, ""))]
         IN IF r = "failed"
            THEN ResultsErrorHandler(w, c0)
            ELSE Finish(w, c0, "cp85")
    /\ UNCHANGED <<subs, globalSubs, modelResponse, pending>>

\* A detection that takes every decoded body for a bilateral result.
DetectAssumingBilateral(r) ==
    IF r.bilateral /\ r.attention # "absent" THEN "bilateral_with_heatmap"
    ELSE "bilateral"

\* detect_response_format: "unknown" stands for the ValueError it raises.
detect_response_format(r) ==
    IF r.bilateral /\ r.attention # "absent" THEN "bilateral_with_heatmap"
    ELSE IF r.bilateral THEN "bilateral"
    ELSE "unknown"

\* dicom_objects_to_upload (the descriptions) for a decoded model response.
ArtifactsFor(r) ==
    IF detect_response_format(r) = "bilateral" THEN <<"SR-Bilateral">>
    ELSE IF r.attention = "data" THEN <<"SR-Bilateral-MST", "SC-MultiFrame">>
    ELSE <<"SR-Bilateral-MST">>

\* Format detection and creation of the SR / SC objects.
CreateResults(w) ==
    /\ pc[w] = "create"
    /\ LET r == modelResponse[w]
           c0 == Ctx(w)
       IN IF detect_response_format(r) = "unknown"
          THEN /\ ResultsErrorHandler(w, c0)
               /\ UNCHANGED pending
          ELSE \/ /\ ResultsErrorHandler(w, c0)   \* create_bilateral_sr / create_multiframe_attention_sc raises
                  /\ UNCHANGED pending
               \/ /\ Finish(w, c0, "cp95")
                  /\ pending' = [pending EXCEPT ![w] = ArtifactsFor(r)]
    /\ UNCHANGED <<subs, globalSubs, modelResponse>>

\* One iteration of the upload loop: requests.post to the viewer.
UploadArtifact(w) ==
    /\ pc[w] = "upload"
    /\ pending[w] # <<>>
    /\ \E r \in DeliveryOutcomes :
         LET c0 == [Ctx(w) EXCEPT !.tr = Append(@, Event("upload", wi[w][1], Head(pending[w]), r))]
         IN IF r = "exception"
            THEN /\ ResultsErrorHandler(w, c0)
                 /\ UNCHANGED pending
            ELSE /\ Finish(w, c0, IF Tail(pending[w]) = <<>> THEN "complete" ELSE "upload")
                 /\ pending' = [pending EXCEPT ![w] = Tail(@)]
    /\ UNCHANGED <<subs, globalSubs, modelResponse>>

\* update_state("COMPLETED", ...); store; notify.
CompleteWorkitem(w) ==
    /\ pc[w] = "complete"
    /\ LET c0 == [Ctx(w) EXCEPT !.o = update_state(@, "COMPLETED",
                                    PyText("AI inference completed successfully"),
                                    PyNone, PyNone)]
       IN \E out \in StoreOutcomes :
            LET c1 == Persist(c0, out)
            IN IF c1.exc
               THEN OuterHandlerStep(w, c1)
               ELSE \E n \in NotifyChoices(get_subscribers(subs, globalSubs, w)) :
                        Finish(w, Notify(c1, get_subscribers(subs, globalSubs, w), n), "done")
    /\ UNCHANGED <<subs, globalSubs, modelResponse, pending>>

(* ------------------------------------------------------------------ *)
(* UPS-RS REST handlers                                                *)
(* ------------------------------------------------------------------ *)

\* The study_uid of a create request's body: "" when the key is missing.
StudyUIDs == {"", "1.2.3"}

\* POST /ups-rs/workitems with a study_uid and nSeries series, w being the
\* UID generate_uid() hands out: 400 when study_uid is missing; else the
\* workitem is built and stored, and its pipeline thread is started; the
\* answer is written later, by Respond. A store that raises answers 500 and
\* starts no thread.
CreateWorkitem(w, study_uid, nSeries) ==
    IF study_uid = ""
    THEN /\ reply' = Reply("CreateWorkitem", "", "400", <<>>)
         /\ UNCHANGED <<pc, wi, kv, index, subs, globalSubs, modelResponse, pending,
                        trace, lastDelivery, raised, awaiting, started, call, feedback, viewer>>
    ELSE /\ pc[w] = "none"
         /\ \E out \in StoreOutcomes :
              LET o == NewWorkitem(w, nSeries)
                  r == store_workitem(kv, index, o, out)
              IN /\ kv' = r.kv
                 /\ index' = r.index
                 /\ wi' = [wi EXCEPT ![w] = <<o>>]
                 /\ trace' = [trace EXCEPT ![w] =
                                IF out.rec THEN <<Event("persist", o, "create", "")>> ELSE <<>>]
                 /\ pc' = [pc EXCEPT ![w] = IF r.raised THEN "rejected" ELSE "cp10"]
                 /\ started' = [started EXCEPT ![w] = IF r.raised THEN @ ELSE @ + 1]
                 /\ awaiting' = IF r.raised THEN awaiting ELSE awaiting \cup {w}
                 /\ reply' = IF r.raised THEN Reply("CreateWorkitem", w, "500", <<>>) ELSE reply
         /\ UNCHANGED <<subs, globalSubs, modelResponse, pending, lastDelivery, raised, call, feedback, viewer>>

\* The end of the CreateWorkitem handler, which runs beside the thread it
\* started: output.AnswerBuffer(json.dumps(workitem.data)), workitem being
\* the object the thread works on.
Respond(w) ==
    /\ w \in awaiting
    /\ awaiting' = awaiting \ {w}
    /\ reply' = Reply("CreateWorkitem", w, "200", <<wi[w][1].data>>)
    /\ UNCHANGED <<pc, wi, kv, index, subs, globalSubs, modelResponse, pending,
                   trace, lastDelivery, raised, started, call, feedback, viewer>>

\* Texts a caller may send as progress_info.
ProgressInfos == {PyNone, PyText("Processing...")}

\* A PUT handler that starts the pipeline again for a workitem put back to
\* SCHEDULED.
UpdateRestartingPipeline(w, new_state, progress_info) ==
    /\ \E readOk \in ReadOutcomes : get_workitem(kv, w, readOk) # <<>>
    /\ \E out \in StoreOutcomes :
         LET o == update_state(get_workitem(kv, w, TRUE)[1], new_state, progress_info,
                               PyNone, PyNone)
             r == store_workitem(kv, index, o, out)
         IN /\ kv' = r.kv
            /\ index' = r.index
    /\ started' = [started EXCEPT ![w] = IF new_state = "SCHEDULED" /\ @ < 2 THEN @ + 1 ELSE @]
    /\ UNCHANGED <<pc, wi, subs, globalSubs, modelResponse, pending, trace,
                   lastDelivery, raised, reply, awaiting, call, feedback, viewer>>

\* PUT /ups-rs/workitems/{uid}/state with body {state, progress_info},
\* new_state being "" when the key is missing: 400 without a state, 404
\* when get_workitem answers None, else update_state(new_state,
\* progress_info) and store_workitem on the copy read from the store, and
\* 200 with that copy (500 when store_workitem raises).
UpdateWorkitemState(w, new_state, progress_info) ==
    /\ \E readOk \in ReadOutcomes, out \in StoreOutcomes :
         LET found == get_workitem(kv, w, readOk)
         IN IF new_state = ""
            THEN /\ reply' = Reply("UpdateWorkitemState", w, "400", <<>>)
                 /\ UNCHANGED <<kv, index>>
            ELSE IF found = <<>>
            THEN /\ reply' = Reply("UpdateWorkitemState", w, "404", <<>>)
                 /\ UNCHANGED <<kv, index>>
            ELSE LET o == update_state(found[1], new_state, progress_info, PyNone, PyNone)
                     r == store_workitem(kv, index, o, out)
                 IN /\ kv' = r.kv
                    /\ index' = r.index
                    /\ reply' = IF r.raised
                                THEN Reply("UpdateWorkitemState", w, "500", <<>>)
                                ELSE Reply("UpdateWorkitemState", w, "200", <<o.data>>)
    /\ UNCHANGED <<pc, wi, subs, globalSubs, modelResponse, pending, trace,
                   lastDelivery, raised, awaiting, started, call, feedback, viewer>>

\* A handler that pushes the workitem as it was created instead of the one
\* it read from the store.
SubscribePushingCreated(w, url) ==
    /\ \E readOk \in ReadOutcomes : get_workitem(kv, w, readOk) # <<>>
    /\ subs' = add_subscription(subs, w, url)
    /\ \E outcome \in DeliveryOutcomes :
         lastDelivery' = Delivery(w, "push", {url}, [u \in {url} |-> outcome],
                                  [attempted |-> {url},
                                   delivered |-> IF notify_subscriber(outcome).delivered
                                                 THEN {url} ELSE {}],
                                  <<CreateDicomJson(get_workitem(kv, w, TRUE)[1].data.series)>>)
    /\ UNCHANGED <<pc, wi, kv, index, globalSubs, modelResponse, pending, trace, raised,
                   reply, awaiting, started, call, feedback, viewer>>

\* A handler that registers the subscriber before it looks the workitem up.
SubscribeRegisteringFirst(w, url) ==
    /\ \E readOk \in ReadOutcomes :
         LET found == get_workitem(kv, w, readOk)
         IN /\ subs' = IF url = "" THEN subs ELSE add_subscription(subs, w, url)
            /\ reply' = IF url = "" THEN Reply("SubscribeToWorkitem", w, "400", <<>>)
                        ELSE IF found = <<>> THEN Reply("SubscribeToWorkitem", w, "404", <<>>)
                        ELSE Reply("SubscribeToWorkitem", w, "200", <<"subscribed">>)
    /\ UNCHANGED <<pc, wi, kv, index, globalSubs, modelResponse, pending, trace, raised,
                   lastDelivery, awaiting, started, call, feedback, viewer>>

\* POST /ups-rs/workitems/{uid}/subscribers with body {subscriber_url}, url
\* being "" when the key is missing: 400 without a subscriber_url, 404 when
\* get_workitem answers None, else add_subscription and one
\* notify_subscriber of the workitem read from the store, and 200.
SubscribeToWorkitem(w, url) ==
    /\ \E readOk \in ReadOutcomes, outcome \in DeliveryOutcomes :
         LET found == get_workitem(kv, w, readOk)
         IN IF url = ""
            THEN /\ reply' = Reply("SubscribeToWorkitem", w, "400", <<>>)
                 /\ UNCHANGED <<subs, lastDelivery>>
            ELSE IF found = <<>>
            THEN /\ reply' = Reply("SubscribeToWorkitem", w, "404", <<>>)
                 /\ UNCHANGED <<subs, lastDelivery>>
            ELSE /\ subs' = add_subscription(subs, w, url)
                 /\ lastDelivery' =
                        Delivery(w, "push", {url}, [u \in {url} |-> outcome],
                                 [attempted |-> {url},
                                  delivered |-> IF notify_subscriber(outcome).delivered
                                                THEN {url} ELSE {}],
                                 <<to_json(found[1])>>)
                 /\ reply' = Reply("SubscribeToWorkitem", w, "200", <<"subscribed">>)
    /\ mirror' = Receive(mirror, lastDelivery')
    /\ missed' = Missed(missed, lastDelivery')
    /\ UNCHANGED <<pc, wi, kv, index, globalSubs, modelResponse, pending, trace, raised,
                   awaiting, started, call, feedback, subscribing>>

\* DELETE /ups-rs/workitems/{uid}/subscribers/{url}: remove_subscription,
\* and 200.
UnsubscribeFromWorkitem(w, url) ==
    /\ \E outcome \in DeleteOutcomes(<<w, url>> \in subs) :
         subs' = remove_subscription(subs, w, url, outcome).subs
    /\ reply' = Reply("UnsubscribeFromWorkitem", w, "200", <<"unsubscribed">>)
    /\ UNCHANGED <<pc, wi, kv, index, globalSubs, modelResponse, pending, trace,
                   lastDelivery, raised, awaiting, started, call, feedback, viewer>>

\* GET /ups-rs/workitems/{uid}: 404 when get_workitem answers None, else
\* 200 with the stored workitem.
GetWorkitem(w) ==
    /\ \E readOk \in ReadOutcomes :
         LET o == get_workitem(kv, w, readOk)
         IN reply' = IF o = <<>>
                     THEN Reply("GetWorkitem", w, "404", <<>>)
                     ELSE Reply("GetWorkitem", w, "200", <<o[1].data>>)
    /\ UNCHANGED <<pc, wi, kv, index, subs, globalSubs, modelResponse, pending,
                   trace, lastDelivery, raised, awaiting, started, call, feedback, viewer>>

\* The state filters of a query: <<>> for none.
Filters == {<<>>} \cup {<<st>> : st \in States}

\* The bodies of a list of workitems.
Bodies(ws) == [i \in 1..Len(ws) |-> ws[i].data]

\* QueryWorkitems: 200 with the bodies list_workitems yields.
QueryWorkitems(filter, idxOk, recOk) ==
    Reply("QueryWorkitems", "", "200", Bodies(list_workitems(kv, index, filter, idxOk, recOk)))

\* register_ups_routes: the path patterns and the callback of each.
RouteTable ==
    << [pattern |-> "/ups-rs/workitems$",                         handler |-> "CreateWorkitem"],
       [pattern |-> "/ups-rs/workitems/([0-9.]+)$",               handler |-> "GetWorkitem"],
       [pattern |-> "/ups-rs/workitems/([0-9.]+)/state$",         handler |-> "UpdateWorkitemState"],
       [pattern |-> "/ups-rs/workitems/([0-9.]+)/subscribers$",   handler |-> "SubscribeToWorkitem"],
       [pattern |-> "/ups-rs/workitems/([0-9.]+)/subscribers/(.+)$", handler |-> "UnsubscribeFromWorkitem"] >>

\* The callback registered for a pattern, "" when there is none.
Dispatch(pattern) ==
    IF \E i \in 1..Len(RouteTable) : RouteTable[i].pattern = pattern
    THEN RouteTable[CHOOSE i \in 1..Len(RouteTable) : RouteTable[i].pattern = pattern].handler
    ELSE ""

\* GET /ups-rs/workitems[?state=X]: the request goes to the callback of the
\* collection pattern. CreateWorkitem answers a method other than POST with
\* SendMethodNotAllowed.
CollectionGet(filter) ==
    /\ LET h == Dispatch("/ups-rs/workitems$")
       IN IF h = "QueryWorkitems"
          THEN \E idxOk \in ReadOutcomes, recOk \in [DOMAIN kv -> ReadOutcomes] :
                   reply' = QueryWorkitems(filter, idxOk, recOk)
          ELSE IF h = "CreateWorkitem"
               THEN reply' = Reply("CreateWorkitem", "", "405", <<>>)
               ELSE reply' = Reply("", "", "404", <<>>)
    /\ UNCHANGED <<pc, wi, kv, index, subs, globalSubs, modelResponse, pending,
                   trace, lastDelivery, raised, awaiting, started, call, feedback, viewer>>

(* ------------------------------------------------------------------ *)
(* Direct calls of the subscription registry                           *)
(* ------------------------------------------------------------------ *)

\* The workitem UIDs the registry is called with.
RegistryUIDs == {"1.2.826.0.1", "1.2.826.0.2"}

\* What a registry call found: the URL and whether it was registered.
Found(url, existed) == <<[url |-> url, existed |-> existed]>>

\* subscription_storage.add_subscription(w, url)
AddSubscription(w, url) ==
    /\ subs' = add_subscription(subs, w, url)
    /\ reply' = Reply("add_subscription", w, "returned", Found(url, <<w, url>> \in subs))
    /\ UNCHANGED <<pc, wi, kv, index, globalSubs, modelResponse, pending, trace,
                   lastDelivery, raised, awaiting, started, call, feedback, viewer>>

\* subscription_storage.remove_subscription(w, url)
RemoveSubscription(w, url) ==
    /\ \E outcome \in DeleteOutcomes(<<w, url>> \in subs) :
         LET r == remove_subscription(subs, w, url, outcome)
         IN /\ subs' = r.subs
            /\ reply' = Reply("remove_subscription", w,
                              IF r.raised THEN "raised" ELSE "returned",
                              Found(url, <<w, url>> \in subs))
    /\ UNCHANGED <<pc, wi, kv, index, globalSubs, modelResponse, pending, trace,
                   lastDelivery, raised, awaiting, started, call, feedback, viewer>>

\* subscription_storage.add_global_subscription(url)
AddGlobalSubscription(url) ==
    /\ globalSubs' = add_global_subscription(globalSubs, url)
    /\ reply' = Reply("add_global_subscription", "", "returned",
                      Found(url, url \in Range(globalSubs)))
    /\ UNCHANGED <<pc, wi, kv, index, subs, modelResponse, pending, trace,
                   lastDelivery, raised, awaiting, started, call, feedback, viewer>>

RegistryNext ==
    \E w \in RegistryUIDs, u \in SubscriberURLs :
        \/ AddSubscription(w, u)
        \/ RemoveSubscription(w, u)
        \/ AddGlobalSubscription(u)

\* The subscription registry under any sequence of direct calls.
RegistrySpec == InitOver(RegistryUIDs) /\ [][RegistryNext]_vars

(* ------------------------------------------------------------------ *)
(* The workitem store under two workitems                              *)
(* ------------------------------------------------------------------ *)

\* The UIDs of two workitems created for different studies.
StoredUIDs == {"1.2.826.0.1", "1.2.826.0.2"}

\* The checkpoints of a successful run, in order.
SuccessOrder == <<"cp10", "cp20", "cp30", "cp50", "cp70", "cp85", "cp95">>

\* The number of store_workitem calls made for a workitem whose run
\* succeeds: one by CreateWorkitem, one per checkpoint, one for COMPLETED.
NumStores == Len(SuccessOrder) + 2

RECURSIVE RunObject(_, _)
\* The workitem handed to the n-th of these calls.
RunObject(w, n) ==
    IF n = 1 THEN NewWorkitem(w, 1)
    ELSE IF n = NumStores
    THEN update_state(RunObject(w, n - 1), "COMPLETED",
                      PyText("AI inference completed successfully"), PyNone, PyNone)
    ELSE update_state(RunObject(w, n - 1), "IN_PROGRESS",
                      PyInt(CheckpointPercent(SuccessOrder[n - 1])),
                      PyText(CheckpointDescription(SuccessOrder[n - 1])), PyNone)

\* store_workitem, first step: StoreKeyValue of the record.
WriteRecord(w) ==
    /\ call[w].step = "idle"
    /\ call[w].n < NumStores
    /\ kv' = [kv EXCEPT ![w] = <<to_json(RunObject(w, call[w].n + 1))>>]
    /\ call' = [call EXCEPT ![w] = [step |-> "wrote", n |-> @.n + 1, seen |-> <<>>]]
    /\ UNCHANGED <<pc, wi, index, subs, globalSubs, modelResponse, pending, trace,
                   lastDelivery, raised, reply, awaiting, started, feedback, viewer>>

\* _add_to_index, first step: index = self._get_index()
ReadIndex(w) ==
    /\ call[w].step = "wrote"
    /\ call' = [call EXCEPT ![w] = [@ EXCEPT !.step = "read", !.seen = GetIndex(index, TRUE)]]
    /\ UNCHANGED <<pc, wi, kv, index, subs, globalSubs, modelResponse, pending, trace,
                   lastDelivery, raised, reply, awaiting, started, feedback, viewer>>

\* _add_to_index, second step: append and StoreKeyValue when the UID is not
\* in the list that was read.
WriteIndex(w) ==
    /\ call[w].step = "read"
    /\ index' = IF InIndex(w, call[w].seen) THEN index ELSE Append(call[w].seen, w)
    /\ call' = [call EXCEPT ![w] = [@ EXCEPT !.step = "idle", !.seen = <<>>]]
    /\ UNCHANGED <<pc, wi, kv, subs, globalSubs, modelResponse, pending, trace,
                   lastDelivery, raised, reply, awaiting, started, feedback, viewer>>

RaceNext ==
    \E w \in StoredUIDs : WriteRecord(w) \/ ReadIndex(w) \/ WriteIndex(w)

\* Two workitems created concurrently whose runs both succeed: the key-value
\* store calls of their store_workitem calls, interleaved.
RaceSpec == InitOver(StoredUIDs) /\ [][RaceNext]_vars

\* A workitem in the given state, as a caller of the store may hand it in.
StoredObject(w, st) ==
    update_state(NewWorkitem(w, 1), st, PyInt(50), PyText("AI model analyzing data"), PyNone)

\* What the key-value store does during one delete_workitem call.
DeleteCallOutcomes == [del : BOOLEAN, idxRead : BOOLEAN, idxWrite : BOOLEAN]

\* UPSStorage.delete_workitem followed by _remove_from_index; every
\* exception is caught and logged.
delete_workitem(kvs, idx, uid, out) ==
    IF ~out.del
    THEN [kv |-> kvs, index |-> idx]
    ELSE LET kv1 == [kvs EXCEPT ![uid] = <<>>]
             read == GetIndex(idx, out.idxRead)
         IN IF InIndex(uid, read) /\ out.idxWrite
            THEN [kv |-> kv1, index |-> SelectSeq(read, LAMBDA x : x # uid)]
            ELSE [kv |-> kv1, index |-> idx]

\* ups_storage.store_workitem(workitem) as one call.
StoreCall(w, st) ==
    /\ \E out \in StoreOutcomes :
         LET r == store_workitem(kv, index, StoredObject(w, st), out)
         IN /\ kv' = r.kv
            /\ index' = r.index
            /\ reply' = Reply("store_workitem", w, IF r.raised THEN "raised" ELSE "returned", <<>>)
    /\ UNCHANGED <<pc, wi, subs, globalSubs, modelResponse, pending, trace,
                   lastDelivery, raised, awaiting, started, call, feedback, viewer>>

\* ups_storage.delete_workitem(uid) as one call.
DeleteCall(w) ==
    /\ \E out \in DeleteCallOutcomes :
         LET r == delete_workitem(kv, index, w, out)
         IN /\ kv' = r.kv
            /\ index' = r.index
            /\ reply' = Reply("delete_workitem", w, "returned", <<>>)
    /\ UNCHANGED <<pc, wi, subs, globalSubs, modelResponse, pending, trace,
                   lastDelivery, raised, awaiting, started, call, feedback, viewer>>

StoreNext ==
    \E w \in StoredUIDs : DeleteCall(w) \/ \E st \in States : StoreCall(w, st)

\* The workitem store under any sequence of calls, one at a time.
StoreSpec == InitOver(StoredUIDs) /\ [][StoreNext]_vars

(* ------------------------------------------------------------------ *)
(* The workitem codec (to_json / from_json) on the entity's operations *)
(* ------------------------------------------------------------------ *)

\* Largest number of output references added to one workitem.
MaxOutputs == 2

\* The viewer_url argument of the constructor: None or a callback URL.
ViewerURLs == {<<>>, <<"http://viewer-a:8042">>}

\* UPSWorkitem(study_uid, series_uids, wado_rs_retrieval, viewer_url=...)
Construct(uid, nSeries, viewer_url) ==
    [NewWorkitem(uid, nSeries) EXCEPT !.viewer_url = viewer_url]

\* UPSWorkitem.add_output_reference: the sequence is created when the key is
\* absent, and one item is appended.
add_output_reference(o) == [o EXCEPT !.data.outputs = @ + 1]

\* Arguments update_state is called with.
PercentArgs == {PyNone, PyInt(0), PyInt(100)}

DescriptionArgs == {PyNone, PyText("Processing...")}

ReasonArgs == {PyNone, PyText("Model error")}

\* A workitem is built: input sequences of length 0, 1 and more.
ConstructWorkitem(w) ==
    /\ wi[w] = <<>>
    /\ \E n \in 0..(MaxSeries + 1), v \in ViewerURLs :
         wi' = [wi EXCEPT ![w] = <<Construct(w, n, v)>>]
    /\ UNCHANGED <<pc, kv, index, subs, globalSubs, modelResponse, pending, trace,
                   lastDelivery, raised, reply, awaiting, started, call, feedback, viewer>>

\* workitem.update_state(...)
UpdateState(w) ==
    /\ wi[w] # <<>>
    /\ \E st \in States, p \in PercentArgs, d \in DescriptionArgs, c \in ReasonArgs :
         wi' = [wi EXCEPT ![w] = <<update_state(wi[w][1], st, p, d, c)>>]
    /\ UNCHANGED <<pc, kv, index, subs, globalSubs, modelResponse, pending, trace,
                   lastDelivery, raised, reply, awaiting, started, call, feedback, viewer>>

\* workitem.add_output_reference(series_uid, study_uid)
AddOutputReference(w) ==
    /\ wi[w] # <<>>
    /\ wi[w][1].data.outputs < MaxOutputs
    /\ wi' = [wi EXCEPT ![w] = <<add_output_reference(wi[w][1])>>]
    /\ UNCHANGED <<pc, kv, index, subs, globalSubs, modelResponse, pending, trace,
                   lastDelivery, raised, reply, awaiting, started, call, feedback, viewer>>

\* store_workitem(workitem) and then get_workitem(workitem.workitem_uid),
\* every key-value call succeeding; the answer holds the workitem stored
\* and the one read back.
StoreThenGet(w) ==
    /\ wi[w] # <<>>
    /\ LET r == store_workitem(kv, index, wi[w][1], StoreOk)
       IN /\ kv' = r.kv
          /\ index' = r.index
          /\ reply' = Reply("get_workitem", w, "returned",
                            <<[stored |-> wi[w][1], read |-> get_workitem(r.kv, w, TRUE)]>>)
    /\ UNCHANGED <<pc, wi, subs, globalSubs, modelResponse, pending, trace,
                   lastDelivery, raised, awaiting, started, call, feedback, viewer>>

CodecNext ==
    \E w \in WorkitemUIDs :
        \/ ConstructWorkitem(w)
        \/ UpdateState(w)
        \/ AddOutputReference(w)
        \/ StoreThenGet(w)

\* The entity under any sequence of its operations, stored and read back at
\* any point.
CodecSpec == Init /\ [][CodecNext]_vars

(* ------------------------------------------------------------------ *)
(* Feedback store (feedback_db.py) and its handlers                    *)
(* (feedback_routes.py). A transaction opened with BEGIN IMMEDIATE     *)
(* holds the write lock of the database until COMMIT or ROLLBACK, so   *)
(* it is one step; reads on other connections see committed rows. The  *)
(* database calls are taken to succeed.                                *)
(* ------------------------------------------------------------------ *)

\* The (study_uid, model_name, model_version, result_ts) keys in use.
ResultKeys == {"1.2.3/mst/1.0/t1", "1.2.3/mst/1.0/t2"}

UserIDs == {"alice", "bob"}

\* The values of verdict_L and verdict_R the CHECK constraints admit.
Verdicts == {-1, 0, 1}

\* Largest number of rows of feedback_event.
MaxEvents == 3

\* Largest reading of the clock; created_at has millisecond resolution, so
\* two events may carry the same reading.
MaxTime == 1

PyBool(b) == [kind |-> "bool", int |-> IF b THEN 1 ELSE 0, str |-> ""]

\* bool(v) of an optional boolean or integer.
Truth(v) == v.kind \in {"bool", "int"} /\ v.int # 0

\* SELECT id FROM ai_result_ref WHERE the key matches: <<>> for no row.
get_result_id(rows, key) ==
    IF \E i \in 1..Len(rows) : rows[i].key = key
    THEN <<rows[CHOOSE i \in 1..Len(rows) : rows[i].key = key].id>>
    ELSE <<>>

\* _get_or_create_ai_result_id: INSERT ... ON CONFLICT DO UPDATE SET
\* meta_json = COALESCE(excluded.meta_json, meta_json), then the SELECT of
\* the id. inserted tells whether the statement added the row.
get_or_create_ai_result_id(rows, key, meta) ==
    IF get_result_id(rows, key) = <<>>
    THEN [rows |-> Append(rows, [id |-> Len(rows) + 1, key |-> key, meta |-> meta]),
          id |-> Len(rows) + 1, inserted |-> TRUE]
    ELSE [rows |-> [i \in 1..Len(rows) |->
                       IF rows[i].key = key /\ meta # <<>>
                       THEN [rows[i] EXCEPT !.meta = meta] ELSE rows[i]],
          id |-> get_result_id(rows, key)[1], inserted |-> FALSE]

\* SELECT 1 FROM feedback_event WHERE ai_result_id=? AND user_id=?
HasPrior(evs, ai_id, user) ==
    \E i \in 1..Len(evs) : evs[i].ai_result_id = ai_id /\ evs[i].user_id = user

\* The row INSERT INTO feedback_event adds: the next rowid and the clock's
\* reading as created_at.
NewEvent(evs, ai_id, p, kind, clock) ==
    [id |-> Len(evs) + 1, ai_result_id |-> ai_id, user_id |-> p.user,
     verdict_L |-> p.verdict, verdict_R |-> 0, submission_kind |-> kind,
     created_at |-> clock]

\* A submit_feedback that raises ConflictError after the INSERT, without a
\* ROLLBACK.
SubmitFeedbackWithoutRollback(rows, evs, p, clock) ==
    LET g == get_or_create_ai_result_id(rows, p.key, p.meta)
        has_prior == HasPrior(evs, g.id, p.user)
        e == NewEvent(evs, g.id, p, IF has_prior THEN "edit" ELSE "initial", clock)
    IN [rows |-> g.rows, events |-> Append(evs, e),
        raised |-> IF has_prior /\ ~Truth(p.edited) THEN "ConflictError" ELSE "",
        saved |-> IF has_prior /\ ~Truth(p.edited) THEN <<>> ELSE <<e>>]

\* A submit_feedback that records every event as 'initial'.
SubmitFeedbackAlwaysInitial(rows, evs, p, clock) ==
    LET g == get_or_create_ai_result_id(rows, p.key, p.meta)
        has_prior == HasPrior(evs, g.id, p.user)
    IN IF has_prior /\ ~Truth(p.edited)
       THEN [rows |-> rows, events |-> evs, raised |-> "ConflictError", saved |-> <<>>]
       ELSE LET e == NewEvent(evs, g.id, p, "initial", clock)
            IN [rows |-> g.rows, events |-> Append(evs, e), raised |-> "", saved |-> <<e>>]

\* submit_feedback(p), one transaction: the tables after it, the exception
\* it raises ("" for none) and the saved row.
submit_feedback(rows, evs, p, clock) ==
    LET g == get_or_create_ai_result_id(rows, p.key, p.meta)
        has_prior == HasPrior(evs, g.id, p.user)
    IN IF has_prior /\ ~Truth(p.edited)
       THEN [rows |-> rows, events |-> evs, raised |-> "ConflictError", saved |-> <<>>]
       ELSE LET e == NewEvent(evs, g.id, p, IF has_prior THEN "edit" ELSE "initial", clock)
            IN [rows |-> g.rows, events |-> Append(evs, e), raised |-> "", saved |-> <<e>>]

\* A view that keeps the first event of each (result, user) pair.
CurrentKeepingOldest(evs) ==
    {e \in Range(evs) :
        ~\E f \in Range(evs) :
            /\ f.ai_result_id = e.ai_result_id
            /\ f.user_id = e.user_id
            /\ \/ f.created_at < e.created_at
               \/ f.created_at = e.created_at /\ f.id < e.id}

\* v_feedback_current: per (ai_result_id, user_id) the row ranked first by
\* created_at DESC, id DESC.
v_feedback_current(evs) ==
    {e \in Range(evs) :
        ~\E f \in Range(evs) :
            /\ f.ai_result_id = e.ai_result_id
            /\ f.user_id = e.user_id
            /\ \/ f.created_at > e.created_at
               \/ f.created_at = e.created_at /\ f.id > e.id}

\* The row of an export: the event joined with its ai_result_ref row. The
\* event id is not exported.
ExportRow(rows, e) ==
    [key |-> rows[CHOOSE i \in 1..Len(rows) : rows[i].id = e.ai_result_id].key,
     user_id |-> e.user_id, verdict_L |-> e.verdict_L, verdict_R |-> e.verdict_R,
     created_at |-> e.created_at, submission_kind |-> e.submission_kind]

RECURSIVE ExportFrom(_, _, _)
\* The rows of the events of evs that are in the set keep and have an
\* ai_result_ref row, in the order of evs.
ExportFrom(rows, evs, keep) ==
    IF evs = <<>> THEN <<>>
    ELSE IF /\ Head(evs) \in keep
            /\ \E i \in 1..Len(rows) : rows[i].id = Head(evs).ai_result_id
         THEN <<ExportRow(rows, Head(evs))>> \o ExportFrom(rows, Tail(evs), keep)
         ELSE ExportFrom(rows, Tail(evs), keep)

\* export_rows_ndjson with no filter: scope "current" reads
\* v_feedback_current, any other scope feedback_event.
export_rows_ndjson(rows, evs, scope) ==
    IF scope = "current"
    THEN ExportFrom(rows, evs, v_feedback_current(evs))
    ELSE ExportFrom(rows, evs, Range(evs))

\* The values of the optional "edited" key of a submission.
EditedArgs == {PyNone, PyBool(FALSE), PyBool(TRUE)}

\* The values of the optional "meta_json" key of a registration.
MetaArgs == {<<>>, <<"{}">>}

\* The clock advances.
Tick ==
    /\ now < MaxTime
    /\ now' = now + 1
    /\ UNCHANGED <<pc, wi, kv, index, subs, globalSubs, modelResponse, pending, trace,
                   lastDelivery, raised, reply, awaiting, started, call,
                   aiResults, events, req, viewer>>

\* POST /feedback/submit, up to the call of submit_feedback: 400 for a
\* verdict outside (-1, 0, 1).
FeedbackSubmit(t, key, user, verdict, edited) ==
    /\ req[t].step = "idle"
    /\ IF verdict \notin Verdicts
       THEN /\ reply' = Reply("FeedbackSubmit", key, "400", <<>>)
            /\ UNCHANGED req
       ELSE /\ req' = [req EXCEPT ![t] =
                         [NoRequest EXCEPT !.op = "submit_feedback", !.step = "called",
                                           !.key = key, !.user = user,
                                           !.verdict = verdict, !.edited = edited]]
            /\ UNCHANGED reply
    /\ UNCHANGED <<pc, wi, kv, index, subs, globalSubs, modelResponse, pending, trace,
                   lastDelivery, raised, awaiting, started, call,
                   aiResults, events, now, viewer>>

\* The transaction of submit_feedback and the answer of the handler: 201
\* with the saved row, 409 for ConflictError.
SubmitTransaction(t) ==
    /\ req[t].op = "submit_feedback"
    /\ req[t].step = "called"
    /\ Len(events) < MaxEvents
    /\ LET r == submit_feedback(aiResults, events, req[t], now)
       IN /\ aiResults' = r.rows
          /\ events' = r.events
          /\ reply' = Reply("FeedbackSubmit", req[t].key,
                            IF r.raised = "ConflictError" THEN "409" ELSE "201", r.saved)
    /\ req' = [req EXCEPT ![t] = NoRequest]
    /\ UNCHANGED <<pc, wi, kv, index, subs, globalSubs, modelResponse, pending, trace,
                   lastDelivery, raised, awaiting, started, call, now, viewer>>

\* POST /feedback/register-result and register_result up to
\* before_id = get_result_id(...), read on a connection of its own.
FeedbackRegisterResult(t, key, meta) ==
    /\ req[t].step = "idle"
    /\ req' = [req EXCEPT ![t] =
                 [NoRequest EXCEPT !.op = "register_result", !.step = "read",
                                   !.key = key, !.meta = meta,
                                   !.before = get_result_id(aiResults, key)]]
    /\ UNCHANGED <<pc, wi, kv, index, subs, globalSubs, modelResponse, pending, trace,
                   lastDelivery, raised, reply, awaiting, started, call,
                   aiResults, events, now, viewer>>

\* register_result: BEGIN IMMEDIATE, _get_or_create_ai_result_id, COMMIT.
RegisterTransaction(t) ==
    /\ req[t].op = "register_result"
    /\ req[t].step = "read"
    /\ LET g == get_or_create_ai_result_id(aiResults, req[t].key, req[t].meta)
       IN /\ aiResults' = g.rows
          /\ req' = [req EXCEPT ![t] = [@ EXCEPT !.step = "committed",
                                                 !.inserted = g.inserted]]
    /\ UNCHANGED <<pc, wi, kv, index, subs, globalSubs, modelResponse, pending, trace,
                   lastDelivery, raised, reply, awaiting, started, call, events, now, viewer>>

\* register_result: after_id = get_result_id(...), the returned dict, and
\* the answer of the handler, 201 if created else 200. The body also tells
\* whether the call's own statement inserted the row.
RegisterReturn(t) ==
    /\ req[t].op = "register_result"
    /\ req[t].step = "committed"
    /\ reply' = Reply("FeedbackRegisterResult", req[t].key,
                      IF req[t].before = <<>> THEN "201" ELSE "200",
                      <<[created |-> req[t].before = <<>>,
                         id |-> get_result_id(aiResults, req[t].key),
                         inserted |-> req[t].inserted]>>)
    /\ req' = [req EXCEPT ![t] = NoRequest]
    /\ UNCHANGED <<pc, wi, kv, index, subs, globalSubs, modelResponse, pending, trace,
                   lastDelivery, raised, awaiting, started, call,
                   aiResults, events, now, viewer>>

\* Submissions of two users for one result, from two clients.
SubmitNext ==
    \/ Tick
    \/ \E t \in Clients :
         \/ \E u \in UserIDs, v \in {-1, 1, 2}, e \in EditedArgs :
               FeedbackSubmit(t, "1.2.3/mst/1.0/t1", u, v, e)
         \/ SubmitTransaction(t)

\* The feedback store under submissions.
FeedbackSpec == Init /\ [][SubmitNext]_vars

\* Registrations from two clients.
RegisterNext ==
    \E t \in Clients :
        \/ \E k \in ResultKeys, m \in MetaArgs : FeedbackRegisterResult(t, k, m)
        \/ RegisterTransaction(t)
        \/ RegisterReturn(t)

\* The feedback store under registrations.
RegisterSpec == Init /\ [][RegisterNext]_vars

(* ------------------------------------------------------------------ *)
(* Specification                                                       *)
(* ------------------------------------------------------------------ *)

\* The creation of workitems and their pipelines.
PipelineNext ==
    \E w \in WorkitemUIDs :
        \/ \E n \in 0..MaxSeries : CreateWorkitem(w, "1.2.3", n)
        \/ Checkpoint(w)
        \/ CallModel(w)
        \/ CheckResponse(w)
        \/ RetrieveSource(w)
        \/ CreateResults(w)
        \/ UploadArtifact(w)
        \/ CompleteWorkitem(w)

\* The subscription requests.
SubscriptionNext ==
    \E w \in WorkitemUIDs, u \in SubscriberURLs :
        \/ SubscribeToWorkitem(w, u)
        \/ UnsubscribeFromWorkitem(w, u)

\* The caller-driven state override.
PutNext ==
    \E w \in WorkitemUIDs, s \in States, p \in ProgressInfos : UpdateWorkitemState(w, s, p)

\* The answers of the create handlers.
RespondNext == \E w \in WorkitemUIDs : Respond(w)

Next == PipelineNext \/ SubscriptionNext \/ PutNext \/ RespondNext

\* The whole node.
Spec == Init /\ [][Next]_vars

\* The node without PUT .../state requests. The pipeline never reads a stored
\* record, so its runs are those of the whole node.
RunSpec == Init /\ [][PipelineNext \/ SubscriptionNext]_vars

\* The node without subscription requests: every fan-out finds no subscriber.
PutSpec == Init /\ [][PipelineNext \/ PutNext]_vars

\* The read requests.
ReadNext ==
    \/ \E w \in WorkitemUIDs : GetWorkitem(w)
    \/ \E f \in Filters : CollectionGet(f)

\* The node under read requests only.
ReadSpec == Init /\ [][PipelineNext \/ ReadNext]_vars

\* One request of each kind a client may send about a workitem, from a
\* client that knows one callback URL and sends no progress text.
RequestNext ==
    \E w \in WorkitemUIDs :
        \/ GetWorkitem(w)
        \/ \E st \in States : UpdateWorkitemState(w, st, PyNone)
        \/ SubscribeToWorkitem(w, "http://viewer-a:8042")
        \/ UnsubscribeFromWorkitem(w, "http://viewer-a:8042")

\* The creation requests alone.
CreateNext == \E w \in WorkitemUIDs, n \in 0..MaxSeries : CreateWorkitem(w, "1.2.3", n)

\* The node under requests of every kind, while the pipeline threads it
\* started have not been scheduled yet.
RestSpec == Init /\ [][CreateNext \/ RequestNext \/ RespondNext]_vars

\* Creation requests, their answers and the pipelines they start.
CreateSpec == Init /\ [][PipelineNext \/ RespondNext]_vars

\* Requests whose body may lack its required key, for a UID that may or may
\* not be stored.
InputNext ==
    \E w \in WorkitemUIDs :
        \/ \E s \in StudyUIDs, n \in 0..MaxSeries : CreateWorkitem(w, s, n)
        \/ \E st \in States \cup {""}, p \in ProgressInfos : UpdateWorkitemState(w, st, p)
        \/ \E u \in {"", "http://viewer-a:8042"} : SubscribeToWorkitem(w, u)
        \/ UnsubscribeFromWorkitem(w, "http://viewer-a:8042")

\* The node under well-formed and malformed requests, while the pipeline
\* threads it started have not been scheduled yet.
InputSpec == Init /\ [][InputNext \/ RespondNext]_vars

(* ------------------------------------------------------------------ *)
(* The viewer subscribing while the pipeline runs: the                 *)
(* SubscribeToWorkitem handler runs on a thread of its own, so its     *)
(* three calls interleave with the steps of the pipeline thread.       *)
(* ------------------------------------------------------------------ *)

\* SubscribeToWorkitem for the viewer, up to
\* workitem = ups_storage.get_workitem(workitem_uid): 404 when it is None.
SubscribeRead(w) ==
    /\ subscribing[w].step = "idle"
    /\ \E readOk \in ReadOutcomes :
         LET found == get_workitem(kv, w, readOk)
         IN IF found = <<>>
            THEN /\ reply' = Reply("SubscribeToWorkitem", w, "404", <<>>)
                 /\ subscribing' = [subscribing EXCEPT ![w] = [step |-> "done", found |-> <<>>]]
            ELSE /\ subscribing' = [subscribing EXCEPT ![w] = [step |-> "read", found |-> found]]
                 /\ UNCHANGED reply
    /\ UNCHANGED <<pc, wi, kv, index, subs, globalSubs, modelResponse, pending, trace,
                   lastDelivery, raised, awaiting, started, call, feedback, mirror, missed>>

\* subscription_storage.add_subscription(workitem_uid, subscriber_url, ...)
SubscribeRegister(w) ==
    /\ subscribing[w].step = "read"
    /\ subs' = add_subscription(subs, w, ViewerURL)
    /\ subscribing' = [subscribing EXCEPT ![w] = [@ EXCEPT !.step = "registered"]]
    /\ UNCHANGED <<pc, wi, kv, index, globalSubs, modelResponse, pending, trace,
                   lastDelivery, raised, reply, awaiting, started, call, feedback,
                   mirror, missed>>

\* notify_subscriber(workitem, subscriber_url) of the workitem that was
\* read, and the answer 200.
SubscribePush(w) ==
    /\ subscribing[w].step = "registered"
    /\ \E outcome \in DeliveryOutcomes :
         lastDelivery' =
             Delivery(w, "push", {ViewerURL}, [u \in {ViewerURL} |-> outcome],
                      [attempted |-> {ViewerURL},
                       delivered |-> IF notify_subscriber(outcome).delivered
                                     THEN {ViewerURL} ELSE {}],
                      <<to_json(subscribing[w].found[1])>>)
    /\ mirror' = Receive(mirror, lastDelivery')
    /\ missed' = Missed(missed, lastDelivery')
    /\ reply' = Reply("SubscribeToWorkitem", w, "200", <<"subscribed">>)
    /\ subscribing' = [subscribing EXCEPT ![w] = [step |-> "done", found |-> <<>>]]
    /\ UNCHANGED <<pc, wi, kv, index, subs, globalSubs, modelResponse, pending, trace,
                   raised, awaiting, started, call, feedback>>

\* The one subscription request of the viewer for a workitem.
ViewerNext ==
    \E w \in WorkitemUIDs : SubscribeRead(w) \/ SubscribeRegister(w) \/ SubscribePush(w)

\* The pipeline beside the viewer's subscription request.
ViewerSpec == Init /\ [][PipelineNext \/ ViewerNext]_vars

(* ------------------------------------------------------------------ *)
(* Reading a run's trace                                               *)
(* ------------------------------------------------------------------ *)

IsPersist(e) == e.op = "persist"

IsNotify(e) == e.op = "notify"

IsInfer(e) == e.op = "infer"

IsRetrieve(e) == e.op = "retrieve"

IsUpload(e) == e.op = "upload"

IsStoreRaised(e) == e.op = "store_raised"

IsCanceledNotify(e) == e.op = "notify" /\ e.snap.state = "CANCELED"

IsCompletedPersist(e) == e.op = "persist" /\ e.snap.state = "COMPLETED"

\* The records written for w, in write order.
Persisted(w) == SelectSeq(trace[w], IsPersist)

Count(w, Test(_)) == Len(SelectSeq(trace[w], Test))

\* The progress_percent text of a snapshot, "" when it has none.
PercentText(d) ==
    IF d.progress = <<>> \/ d.progress[1].percent = <<>> THEN ""
    ELSE d.progress[1].percent[1]

\* The number a progress_percent text denotes.
PercentValue(t) == CHOOSE n \in 0..100 : IntToStr(n) = t

Shape(e) == <<e.op, e.snap.state, PercentText(e.snap)>>

Created(w) == pc[w] \notin {"none", "rejected"}

Finished(w) == pc[w] = "done"

\* The run reached the end of process_workitem's try block.
Succeeded(w) == Finished(w) /\ get_state(wi[w][1]) = "COMPLETED"

(* ------------------------------------------------------------------ *)
(* Claims                                                              *)
(* ------------------------------------------------------------------ *)

\* C1: the stored state of a workitem never returns to SCHEDULED once it has
\* left it, and once it is COMPLETED or CANCELED no update changes it.
C1_MonotonicState ==
    [][\A w \in WorkitemUIDs :
         kv[w] # <<>> =>
            /\ kv[w][1].state # "SCHEDULED" => kv'[w][1].state # "SCHEDULED"
            /\ kv[w][1].state \in Terminal => kv'[w][1].state = kv[w][1].state]_vars

\* C2: the states a run persists for its workitem are SCHEDULED (creation),
\* then one or more IN_PROGRESS, then exactly one of COMPLETED or CANCELED:
\* nothing follows a terminal record, no terminal record follows SCHEDULED,
\* and a finished run has written its terminal record.
C2_LegalPersistedSequence ==
    \A w \in WorkitemUIDs :
        LET ps == Persisted(w)
        IN /\ \A i \in 1..Len(ps) :
                /\ i = 1 => ps[i].snap.state = "SCHEDULED"
                /\ i > 1 => /\ ps[i].snap.state \in {"IN_PROGRESS"} \cup Terminal
                            /\ ps[i-1].snap.state \notin Terminal
                            /\ ps[i].snap.state \in Terminal
                                  => ps[i-1].snap.state = "IN_PROGRESS"
           /\ Finished(w) => /\ Len(ps) >= 3
                             /\ ps[Len(ps)].snap.state \in Terminal

\* C3: every CANCELED record the processor persists carries a Reason For
\* Cancellation.
C3_CancelReasonPersisted ==
    \A w \in WorkitemUIDs :
        \A i \in 1..Len(trace[w]) :
            (IsPersist(trace[w][i]) /\ trace[w][i].snap.state = "CANCELED")
                => trace[w][i].snap.reason # <<>>

\* C4: process_workitem never raises to its caller, whatever fails.
C4_NeverRaises == \A w \in WorkitemUIDs : ~raised[w]

\* A finished run whose outermost handler failed to store the cancellation.
C4_Witness ==
    \E w \in WorkitemUIDs :
        /\ Finished(w)
        /\ get_state(wi[w][1]) = "CANCELED"
        /\ IsStoreRaised(trace[w][Len(trace[w])])
        /\ Count(w, IsStoreRaised) >= 2

\* C5: a run that stops after persisting CANCELED has notified the
\* subscribers of that CANCELED record: the last two entries of its trace
\* are the record write and the fan-out of the same snapshot.
C5_CancelNotified ==
    \A w \in WorkitemUIDs :
        (Finished(w) /\ Persisted(w) # <<>>
            /\ Persisted(w)[Len(Persisted(w))].snap.state = "CANCELED")
        => LET t == trace[w]
           IN /\ IsNotify(t[Len(t)])
              /\ IsPersist(t[Len(t) - 1])
              /\ t[Len(t)].snap = t[Len(t) - 1].snap

\* C6: after a non-200 answer or a network exception of the inference call
\* the run ends with CANCELED persisted, has notified that state once, and
\* made no retrieval, no upload, no second inference call and no COMPLETED
\* record.
C6_InferenceFailureStops ==
    \A w \in WorkitemUIDs :
        (Finished(w) /\ modelResponse[w].status \in {"non200", "exception"})
        => /\ Persisted(w)[Len(Persisted(w))].snap.state = "CANCELED"
           /\ Count(w, IsCanceledNotify) = 1
           /\ Count(w, IsRetrieve) = 0
           /\ Count(w, IsUpload) = 0
           /\ Count(w, IsInfer) = 1
           /\ Count(w, IsCompletedPersist) = 0

\* C7: in a run whose key-value store calls all return, once the upload step
\* is reached every produced artifact is attempted and COMPLETED is persisted,
\* whatever the outcome of each upload.
C7_UploadsIndependent ==
    \A w \in WorkitemUIDs :
        (Finished(w) /\ Count(w, IsUpload) > 0 /\ Count(w, IsStoreRaised) = 0)
        => /\ Count(w, IsUpload) = Len(ArtifactsFor(modelResponse[w]))
           /\ Count(w, IsCompletedPersist) = 1

\* The trace of a successful run up to the upload step.
SuccessPrefix ==
    << <<"persist", "SCHEDULED", "">>,
       <<"persist", "IN_PROGRESS", "10">>, <<"notify", "IN_PROGRESS", "10">>,
       <<"persist", "IN_PROGRESS", "20">>, <<"notify", "IN_PROGRESS", "20">>,
       <<"persist", "IN_PROGRESS", "30">>, <<"notify", "IN_PROGRESS", "30">>,
       <<"infer", "IN_PROGRESS", "30">>,
       <<"persist", "IN_PROGRESS", "50">>, <<"notify", "IN_PROGRESS", "50">>,
       <<"persist", "IN_PROGRESS", "70">>, <<"notify", "IN_PROGRESS", "70">>,
       <<"retrieve", "IN_PROGRESS", "70">>,
       <<"persist", "IN_PROGRESS", "85">>, <<"notify", "IN_PROGRESS", "85">>,
       <<"persist", "IN_PROGRESS", "95">>, <<"notify", "IN_PROGRESS", "95">> >>

\* C8: every notification follows the record write of the same snapshot, and
\* a successful run is exactly: the checkpoints 10, 20, 30, (model call), 50,
\* 70, (retrieval), 85, 95, each persisted then notified, the uploads, then
\* COMPLETED persisted then notified.
C8_CheckpointOrder ==
    \A w \in WorkitemUIDs :
        LET t == trace[w]
            n == Len(SuccessPrefix)
        IN /\ \A i \in 1..Len(t) :
                IsNotify(t[i]) => /\ i > 1
                                  /\ IsPersist(t[i-1])
                                  /\ t[i-1].snap = t[i].snap
           /\ Succeeded(w) =>
                /\ Len(t) >= n + 3
                /\ \A i \in 1..n : Shape(t[i]) = SuccessPrefix[i]
                /\ \A i \in (n+1)..(Len(t)-2) : Shape(t[i]) = <<"upload", "IN_PROGRESS", "95">>
                /\ Shape(t[Len(t)-1]) = <<"persist", "COMPLETED", "95">>
                /\ Shape(t[Len(t)]) = <<"notify", "COMPLETED", "95">>

\* A successful run that uploaded two artifacts.
C8_Witness ==
    \E w \in WorkitemUIDs : Succeeded(w) /\ Count(w, IsUpload) = 2

\* C9: of two consecutive records persisted by a run, both IN_PROGRESS, the
\* second has a progress_percent at least that of the first.
C9_ProgressMonotone ==
    \A w \in WorkitemUIDs :
        LET ps == Persisted(w)
        IN \A i \in 2..Len(ps) :
              (ps[i-1].snap.state = "IN_PROGRESS" /\ ps[i].snap.state = "IN_PROGRESS")
              => /\ PercentText(ps[i-1].snap) # ""
                 /\ PercentText(ps[i].snap) # ""
                 /\ PercentValue(PercentText(ps[i-1].snap))
                       <= PercentValue(PercentText(ps[i].snap))

\* A run that persisted the 95% checkpoint after six earlier ones.
C9_Witness ==
    \E w \in WorkitemUIDs :
        /\ Len(Persisted(w)) >= 8
        /\ PercentText(Persisted(w)[8].snap) = "95"

\* C10: a fan-out tries every subscriber it resolved, and every subscriber
\* whose POST answers 200 gets the notification, whatever the other POSTs do
\* and in whatever order the subscribers are visited.
C10_FanOutIndependent ==
    lastDelivery.kind = "fanout" =>
        /\ lastDelivery.attempted = lastDelivery.subscribers
        /\ lastDelivery.delivered =
              {u \in lastDelivery.subscribers : lastDelivery.outcome[u] = "200"}

\* A fan-out in which one POST raised and another subscriber was reached.
C10_Witness ==
    /\ lastDelivery.kind = "fanout"
    /\ \E a, b \in lastDelivery.subscribers :
          /\ lastDelivery.outcome[a] = "exception"
          /\ lastDelivery.outcome[b] = "200"
          /\ b \in lastDelivery.delivered

\* The part of a run's context the pipeline itself reads or persists: the
\* workitem, the store, the exception state and every trace entry other
\* than a fan-out.
IsPipelineEvent(e) == e.op # "notify"

PipelineView(c) ==
    [o |-> c.o, kv |-> c.kv, index |-> c.index, exc |-> c.exc,
     raised |-> c.raised, tr |-> SelectSeq(c.tr, IsPipelineEvent)]

\* The contexts in which the current step of w may fan out: after the
\* record write of its checkpoint, of COMPLETED, or of a cancellation.
FanOutContexts(w) ==
    LET c == Ctx(w)
        updated ==
            IF pc[w] \in CheckpointPcs
            THEN {[c EXCEPT !.o = update_state(@, "IN_PROGRESS",
                                               PyInt(CheckpointPercent(pc[w])),
                                               PyText(CheckpointDescription(pc[w])),
                                               PyNone)]}
            ELSE IF pc[w] = "complete"
            THEN {[c EXCEPT !.o = update_state(@, "COMPLETED",
                                     PyText("AI inference completed successfully"),
                                     PyNone, PyNone)]}
            ELSE IF pc[w] \in {"infer", "check", "retrieve", "create", "upload"}
            THEN {Cancel(c, m) : m \in {"Model error", "Network error calling model",
                                        "Error processing results"}}
            ELSE {}
    IN {c1 \in {Persist(c0, out) : c0 \in updated, out \in StoreOutcomes} : ~c1.exc}

\* C11: delivery outcomes do not affect the pipeline. Wherever a run fans
\* out, whatever the subscriber set, the visiting order and the outcome of
\* each POST, the fan-out leaves the workitem, the store, the exception state
\* and the persisted sequence exactly as they were; two runs with the same
\* inference, retrieval, upload and store outcomes therefore persist the same
\* sequence and end in the same state.
C11_DeliveryNonInterference ==
    \A w \in WorkitemUIDs :
        wi[w] # <<>> =>
            \A c \in FanOutContexts(w) :
                \A S \in SUBSET SubscriberURLs :
                    \A n \in NotifyChoices(S) :
                        PipelineView(Notify(c, S, n)) = PipelineView(c)

\* A run that completed although every delivery of its last fan-out failed.
C11_Witness ==
    \E w \in WorkitemUIDs :
        /\ Succeeded(w)
        /\ lastDelivery.kind = "fanout"
        /\ Cardinality(lastDelivery.subscribers) = 2
        /\ lastDelivery.delivered = {}

C13_IdempotentSubscriptions ==
    [][\A w \in RegistryUIDs, u \in SubscriberURLs :
         /\ (AddSubscription(w, u) /\ <<w, u>> \in subs)
                => /\ subs' = subs
                   /\ get_subscribers(subs', globalSubs', w)
                         = get_subscribers(subs, globalSubs, w)
         /\ AddSubscription(w, u)
                => /\ Cardinality({k \in subs' : k = <<w, u>>}) = 1
                   /\ \A q \in Orders(get_subscribers(subs', globalSubs', w)) :
                         Cardinality({i \in 1..Len(q) : q[i] = u}) = 1
         /\ (RemoveSubscription(w, u) /\ <<w, u>> \notin subs)
                => /\ subs' = subs
                   /\ globalSubs' = globalSubs
                   /\ reply'.status = "returned"]_vars

\* A removal of a pair that was not registered, while others were.
C13_Witness ==
    /\ reply.op = "remove_subscription"
    /\ reply.body # <<>>
    /\ ~reply.body[1].existed
    /\ subs # {}

C15_AsyncCreateResponse ==
    \A w \in WorkitemUIDs :
        /\ Created(w) => (kv[w] # <<>> /\ started[w] = 1)
        /\ w \in awaiting => ENABLED Respond(w)
        /\ (reply.op = "CreateWorkitem" /\ reply.uid = w /\ reply.status = "200")
              => /\ reply.body # <<>>
                 /\ reply.body[1] = CreateDicomJson(reply.body[1].series)

\* C19: GET /ups-rs/workitems/{uid} answers 404 exactly when no record is
\* stored under the UID; a stored workitem is answered 200 with its record,
\* whatever the read does.
C19_NotFoundIffAbsent ==
    [][\A w \in WorkitemUIDs :
         GetWorkitem(w) =>
            /\ reply'.status = "404" <=> kv[w] = <<>>
            /\ kv[w] # <<>> => (reply'.status = "200" /\ reply'.body = kv[w])]_vars

\* C20: a GET on /ups-rs/workitems, with or without a state filter, is
\* answered by QueryWorkitems with 200 and the stored workitems that match.
C20_QueryRouted ==
    [][\A f \in Filters :
         CollectionGet(f) =>
            /\ reply'.op = "QueryWorkitems"
            /\ reply'.status = "200"
            /\ \E idxOk \in ReadOutcomes, recOk \in [DOMAIN kv -> ReadOutcomes] :
                  reply' = QueryWorkitems(f, idxOk, recOk)]_vars

\* C16: a pipeline thread is started only by the creation of a workitem that
\* did not exist, once; no request about an existing workitem, whatever its
\* state, starts another.
C16_OneRunPerWorkitem ==
    [][\A w \in WorkitemUIDs :
         /\ started'[w] <= 1
         /\ (pc'[w] \notin {"none", "rejected"}) <=> started'[w] = 1
         /\ started'[w] # started[w]
               => /\ started[w] = 0
                  /\ kv[w] = <<>>
                  /\ pc[w] = "none"
                  /\ kv'[w] # <<>> /\ kv'[w][1].state = "SCHEDULED"]_vars

\* A workitem with one thread started, put to a terminal state, subscribed
\* to and read.
C16_Witness ==
    \E w \in WorkitemUIDs :
        /\ started[w] = 1
        /\ kv[w] # <<>> /\ kv[w][1].state \in Terminal
        /\ <<w, "http://viewer-a:8042">> \in subs
        /\ reply.op = "GetWorkitem" /\ reply.status = "200"

\* A read of the store in which every key-value call succeeds.
AllReadsOk == [w \in DOMAIN kv |-> TRUE]

\* The UIDs of the workitems list_workitems(filter) returns.
Listed(filter) ==
    LET l == list_workitems(kv, index, filter, TRUE, AllReadsOk)
    IN {l[i].uid : i \in 1..Len(l)}

\* C17: once the runs of both workitems have stored COMPLETED,
\* list_workitems(state=COMPLETED) returns both, whatever the interleaving;
\* and at every point list_workitems(state=IN_PROGRESS) returns only
\* workitems whose stored state is IN_PROGRESS.
C17_BothListed ==
    /\ (\A w \in StoredUIDs : call[w].n = NumStores /\ call[w].step = "idle")
          => Listed(<<"COMPLETED">>) = StoredUIDs
    /\ \A w \in Listed(<<"IN_PROGRESS">>) :
          kv[w] # <<>> /\ kv[w][1].state = "IN_PROGRESS"

\* C18: the index holds exactly the UIDs of the stored workitems, each
\* once, and list_workitems returns exactly the stored workitems that match
\* the filter, each once, in its stored version.
C18_IndexConsistent ==
    /\ Range(index) = {w \in StoredUIDs : kv[w] # <<>>}
    /\ \A i, j \in 1..Len(index) : index[i] = index[j] => i = j
    /\ \A f \in Filters :
          LET l == list_workitems(kv, index, f, TRUE, AllReadsOk)
          IN /\ {l[i].uid : i \in 1..Len(l)}
                  = {w \in StoredUIDs : kv[w] # <<>> /\ (f = <<>> \/ kv[w][1].state = f[1])}
             /\ \A i, j \in 1..Len(l) : l[i].uid = l[j].uid => i = j
             /\ \A i \in 1..Len(l) : <<l[i].data>> = kv[l[i].uid]

(* ------------------------------------------------------------------ *)
(* Requests and their answers                                          *)
(* ------------------------------------------------------------------ *)

\* The progress_description text of a snapshot, "" when it has none.
DescriptionText(d) ==
    IF d.progress = <<>> \/ d.progress[1].desc = <<>> THEN ""
    ELSE d.progress[1].desc[1]

\* C21: a PUT .../state with body {state: S, progress_info: T} on a stored
\* workitem that is answered 200 stores state S and answers with the stored
\* workitem; when S is IN_PROGRESS and T is a text, T is the stored progress
\* description; the stored progress_percent is absent or a number in 0..100.
C21_PutStoresStateAndText ==
    [][\A w \in WorkitemUIDs, S \in States, T \in ProgressInfos :
         (/\ kv[w] # <<>>
          /\ UpdateWorkitemState(w, S, T)
          /\ reply'.op = "UpdateWorkitemState"
          /\ reply'.status = "200")
            => /\ kv'[w] # <<>>
               /\ kv'[w][1].state = S
               /\ reply'.body = kv'[w]
               /\ (S = "IN_PROGRESS" /\ T.kind = "str")
                     => DescriptionText(kv'[w][1]) = T.str
               /\ \/ PercentText(kv'[w][1]) = ""
                  \/ \E n \in 0..100 : IntToStr(n) = PercentText(kv'[w][1])
      ]_vars

\* C22: a CreateWorkitem, UpdateWorkitemState or SubscribeToWorkitem request
\* answered 400 or 404 changes nothing but the answer: no record, no index
\* entry, no subscription, no notification, no pipeline thread.
C22_RejectedChangesNothing ==
    [][(/\ reply' # reply
        /\ reply'.op \in {"CreateWorkitem", "UpdateWorkitemState", "SubscribeToWorkitem"}
        /\ reply'.status \in {"400", "404"})
          => UNCHANGED <<pc, wi, kv, index, subs, globalSubs, modelResponse, pending,
                         trace, lastDelivery, raised, awaiting, started, call, feedback, viewer>>
      ]_vars

\* A subscription request for a UID the store does not hold was answered
\* 404, and the registry is empty and nothing was pushed.
C22_Witness ==
    /\ reply.op = "SubscribeToWorkitem"
    /\ reply.status = "404"
    /\ kv[reply.uid] = <<>>
    /\ subs = {}
    /\ lastDelivery = NoDelivery

(* ------------------------------------------------------------------ *)
(* The codec                                                           *)
(* ------------------------------------------------------------------ *)

\* C23: every workitem the constructor, update_state and
\* add_output_reference can build is reproduced field by field by
\* from_json(to_json(w), w.workitem_uid), and a workitem read back after it
\* was stored equals the one stored.
C23_CodecRoundTrip ==
    /\ \A w \in WorkitemUIDs :
          wi[w] # <<>> => from_json(to_json(wi[w][1]), wi[w][1].uid) = wi[w][1]
    /\ reply.op = "get_workitem" => reply.body[1].read = <<reply.body[1].stored>>

(* ------------------------------------------------------------------ *)
(* Scenarios of the pipeline                                           *)
(* ------------------------------------------------------------------ *)

\* The backend answered 200 with a JSON body that has neither a left/right
\* key nor attention_maps.
UnknownShape(w) ==
    /\ modelResponse[w].status = "200"
    /\ modelResponse[w].json
    /\ ~modelResponse[w].bilateral
    /\ modelResponse[w].attention = "absent"

IsCanceledPersist(e) == e.op = "persist" /\ e.snap.state = "CANCELED"

IsCanceledStoreRaised(e) == e.op = "store_raised" /\ e.snap.state = "CANCELED"

\* The state of the record the store holds for w.
StoredState(w) == IF kv[w] = <<>> THEN "" ELSE kv[w][1].state

\* C24 as stated: after a response of unknown shape the run uploads nothing,
\* never persists COMPLETED, and ends with CANCELED as the stored state.
C24_UnknownShapeCanceled ==
    \A w \in WorkitemUIDs :
        UnknownShape(w) =>
            /\ Count(w, IsUpload) = 0
            /\ Count(w, IsCompletedPersist) = 0
            /\ Finished(w) => StoredState(w) = "CANCELED"

\* C24, amended: after a response of unknown shape the run uploads nothing
\* and never persists COMPLETED; it ends with CANCELED as the stored state
\* unless every write of the CANCELED record raised (the one of the failing
\* step and the best-effort one of the outermost handler), in which case the
\* stored state stays IN_PROGRESS.
C24_UnknownShapeCanceledWhenWritten ==
    \A w \in WorkitemUIDs :
        UnknownShape(w) =>
            /\ Count(w, IsUpload) = 0
            /\ Count(w, IsCompletedPersist) = 0
            /\ Finished(w) =>
                  \/ /\ Count(w, IsCanceledPersist) > 0
                     /\ StoredState(w) = "CANCELED"
                  \/ /\ Count(w, IsCanceledPersist) = 0
                     /\ Count(w, IsCanceledStoreRaised) > 0
                     /\ StoredState(w) = "IN_PROGRESS"

\* A run that persisted the 85% checkpoint, met the format-detection error
\* and ended with CANCELED stored.
C24_Witness ==
    \E w \in WorkitemUIDs :
        /\ UnknownShape(w)
        /\ Finished(w)
        /\ StoredState(w) = "CANCELED"
        /\ \E i \in 1..Len(trace[w]) :
              /\ IsPersist(trace[w][i])
              /\ PercentText(trace[w][i].snap) = "85"

\* The backend answered 200 with a bilateral result and no attention_maps.
BilateralNoHeatmap(w) ==
    /\ modelResponse[w].status = "200"
    /\ modelResponse[w].json
    /\ modelResponse[w].bilateral
    /\ modelResponse[w].attention = "absent"

IsRetrieved(e) == e.op = "retrieve" /\ e.info = "ok"

IsUploaded(e) == e.op = "upload" /\ e.res = "200"

IsHeatmapUpload(e) == e.op = "upload" /\ e.info = "SC-MultiFrame"

\* C25: a run for one series whose response is bilateral with no heatmap and
\* whose retrieval and upload succeeded ends with COMPLETED stored, having
\* submitted exactly one artifact, SR-Bilateral; the multi-frame heatmap
\* image is submitted only for a response with a non-empty heatmap payload.
C25_BilateralCompletes ==
    \A w \in WorkitemUIDs :
        /\ (/\ Finished(w)
            /\ get_wado_rs_urls(wi[w][1]) = 1
            /\ BilateralNoHeatmap(w)
            /\ Count(w, IsRetrieved) = 1
            /\ Count(w, IsUploaded) = Count(w, IsUpload)
            /\ Count(w, IsUploaded) > 0)
              => /\ StoredState(w) = "COMPLETED"
                 /\ Count(w, IsUpload) = 1
                 /\ \A i \in 1..Len(trace[w]) :
                       IsUpload(trace[w][i]) => trace[w][i].info = "SR-Bilateral"
        /\ Count(w, IsHeatmapUpload) > 0 => modelResponse[w].attention = "data"

(* ------------------------------------------------------------------ *)
(* The feedback store                                                  *)
(* ------------------------------------------------------------------ *)

\* The events recorded for a (result key, user) pair, in insertion order.
PairEvents(rows, evs, key, user) ==
    IF get_result_id(rows, key) = <<>> THEN <<>>
    ELSE SelectSeq(evs, LAMBDA e : e.ai_result_id = get_result_id(rows, key)[1]
                                   /\ e.user_id = user)

\* C26: a submission for a (result, user) pair that has a recorded event and
\* that does not carry a true "edited" is answered 409 and leaves both
\* tables, and with them the pair's history and current verdict, unchanged.
C26_RepeatRejected ==
    [][\A t \in Clients :
         (/\ SubmitTransaction(t)
          /\ PairEvents(aiResults, events, req[t].key, req[t].user) # <<>>
          /\ ~Truth(req[t].edited))
            => /\ reply'.op = "FeedbackSubmit"
               /\ reply'.status = "409"
               /\ events' = events
               /\ aiResults' = aiResults
               /\ v_feedback_current(events') = v_feedback_current(events)
      ]_vars

\* A second submission without "edited" was answered 409 while the pair's
\* one event stayed.
C26_Witness ==
    /\ reply.op = "FeedbackSubmit"
    /\ reply.status = "409"
    /\ Len(events) = 1
    /\ \A t \in Clients : req[t].step = "idle"

\* TRUE iff an event of evs before position i is of the pair of evs[i].
EarlierOfPair(evs, i) ==
    \E j \in 1..(i - 1) : /\ evs[j].ai_result_id = evs[i].ai_result_id
                          /\ evs[j].user_id = evs[i].user_id

\* C27: every recorded event has submission_kind "initial" if and only if
\* no earlier event of its (result, user) pair exists, and "edit" otherwise,
\* so that each pair that has events has exactly one "initial" event, the
\* oldest one; submissions of two clients for one pair are interleaved.
C27_InitialIffFirst ==
    /\ \A i \in 1..Len(events) :
          /\ events[i].submission_kind \in {"initial", "edit"}
          /\ (events[i].submission_kind = "initial") <=> ~EarlierOfPair(events, i)
    /\ \A k \in ResultKeys, u \in UserIDs :
          LET h == PairEvents(aiResults, events, k, u)
          IN h # <<>> =>
               /\ Cardinality({i \in 1..Len(h) : h[i].submission_kind = "initial"}) = 1
               /\ h[1].submission_kind = "initial"
               /\ \A i \in 1..Len(h) : /\ h[1].created_at <= h[i].created_at
                                       /\ h[1].id <= h[i].id

\* A pair has an "initial" event followed by an "edit" while another
\* submission for the same pair is in flight.
C27_Witness ==
    \E t \in Clients :
        /\ req[t].step = "called"
        /\ LET h == PairEvents(aiResults, events, req[t].key, req[t].user)
           IN /\ Len(h) = 2
              /\ h[2].submission_kind = "edit"

\* The (result key, user) pairs that have a recorded event.
SubmittedPairs(rows, evs) ==
    {<<k, u>> \in ResultKeys \X UserIDs : PairEvents(rows, evs, k, u) # <<>>}

\* The last recorded event of a pair that has one.
LastOfPair(rows, evs, k, u) ==
    PairEvents(rows, evs, k, u)[Len(PairEvents(rows, evs, k, u))]

\* TRUE iff the view and the export of scope "current" hold, for each pair
\* that has submitted, its last recorded event and nothing else, and the
\* export of scope "history" holds every event.
CurrentIsLatest(rows, evs) ==
    LET cur == export_rows_ndjson(rows, evs, "current")
        hist == export_rows_ndjson(rows, evs, "history")
        pairs == SubmittedPairs(rows, evs)
    IN /\ Cardinality(v_feedback_current(evs)) = Cardinality(pairs)
       /\ \A q \in pairs : LastOfPair(rows, evs, q[1], q[2]) \in v_feedback_current(evs)
       /\ Len(cur) = Cardinality(pairs)
       /\ \A q \in pairs :
             \E i \in 1..Len(cur) :
                 cur[i] = ExportRow(rows, LastOfPair(rows, evs, q[1], q[2]))
       /\ Len(hist) = Len(evs)
       /\ \A i \in 1..Len(evs) : hist[i] = ExportRow(rows, evs[i])

\* C28: after every step the current view and the export of scope "current"
\* hold exactly one row per (result, user) pair that has submitted, the
\* pair's most recently recorded event, the export of scope "history" holds
\* every accepted event, and no step removes or alters a recorded event.
C28_CurrentAndHistory ==
    [][/\ CurrentIsLatest(aiResults', events')
       /\ Len(events') >= Len(events)
       /\ \A i \in 1..Len(events) : events'[i] = events[i]
      ]_vars

\* Three events recorded at one clock value: an initial and an edit of one
\* pair, and the initial of another.
C28_Witness ==
    /\ Len(events) = 3
    /\ Cardinality(v_feedback_current(events)) = 2
    /\ \E i, j \in 1..3 : /\ i < j
                          /\ events[i].user_id = events[j].user_id
                          /\ events[i].created_at = events[j].created_at

\* C29: calls of register_result for one key, in sequence or interleaved,
\* leave exactly one ai_result_ref row of the key, are all answered with
\* the id of that row, and are answered created = true with status 201 by
\* the call whose statement inserted the row and status 200 by every other.
C29_RegisterIdempotent ==
    /\ \A i, j \in 1..Len(aiResults) :
          aiResults[i].key = aiResults[j].key => i = j
    /\ reply.op = "FeedbackRegisterResult" =>
          /\ Cardinality({i \in 1..Len(aiResults) : aiResults[i].key = reply.uid}) = 1
          /\ reply.body[1].id = get_result_id(aiResults, reply.uid)
          /\ reply.body[1].created = reply.body[1].inserted
          /\ reply.status = (IF reply.body[1].inserted THEN "201" ELSE "200")

(* ------------------------------------------------------------------ *)
(* The checkpoint after the inference call                             *)
(* ------------------------------------------------------------------ *)

\* The IN_PROGRESS records written in a run, in order.
InProgressPersisted(w) ==
    SelectSeq(trace[w], LAMBDA e : IsPersist(e) /\ e.snap.state = "IN_PROGRESS")

\* C30: the 50% checkpoint is written and notified only after an inference
\* call answered 200: a finished run whose backend answered another status
\* has no record and no notification of 50%, and the last IN_PROGRESS record
\* written before CANCELED is the 30% checkpoint.
C30_FiftyOnlyOnSuccess ==
    \A w \in WorkitemUIDs :
        /\ (\E i \in 1..Len(trace[w]) :
               /\ trace[w][i].op \in {"persist", "notify"}
               /\ PercentText(trace[w][i].snap) = "50")
             => modelResponse[w].status = "200"
        /\ (Finished(w) /\ modelResponse[w].status = "non200"
            /\ Count(w, IsCanceledPersist) > 0)
             => /\ InProgressPersisted(w) # <<>>
                /\ PercentText(InProgressPersisted(w)[Len(InProgressPersisted(w))].snap) = "30"

(* ------------------------------------------------------------------ *)
(* The order of detection, retrieval and the output references         *)
(* ------------------------------------------------------------------ *)

\* TRUE iff the run of w wrote a record with the progress text p.
PersistedPercent(w, p) ==
    \E i \in 1..Len(trace[w]) :
        IsPersist(trace[w][i]) /\ PercentText(trace[w][i].snap) = p

\* C31: the shape of the inference response is examined before the source
\* retrieval: a run whose response has an unrecognised shape makes no
\* retrieval request and writes neither the 70% nor the 85% checkpoint.
C31_DetectionBeforeRetrieval ==
    \A w \in WorkitemUIDs :
        UnknownShape(w) =>
            /\ Count(w, IsRetrieve) = 0
            /\ ~PersistedPercent(w, "70")
            /\ ~PersistedPercent(w, "85")

\* C32: a workitem that any sequence of update_state calls can build carries
\* a cancellation reason or a cancellation date-time only while its state
\* is CANCELED.
C32_CancellationOnlyWhenCanceled ==
    \A w \in WorkitemUIDs :
        (wi[w] # <<>> /\ (wi[w][1].data.reason # <<>> \/ wi[w][1].data.cancelDT))
            => get_state(wi[w][1]) = "CANCELED"

\* The number of output references of the record the store holds for w.
StoredOutputs(w) == IF kv[w] = <<>> THEN 0 ELSE kv[w][1].outputs

\* C33: the COMPLETED record written at the end of a successful run lists
\* one output reference per artifact the run uploaded, and no step of a run
\* removes an output reference from the workitem.
C33_OutputReferencePerArtifact ==
    \A w \in WorkitemUIDs :
        /\ Succeeded(w) /\ StoredState(w) = "COMPLETED"
             => StoredOutputs(w) = Count(w, IsUploaded)
        /\ \A i, j \in 1..Len(trace[w]) :
             i <= j => trace[w][i].snap.outputs <= trace[w][j].snap.outputs

(* ------------------------------------------------------------------ *)
(* Faults of the key-value store                                       *)
(* ------------------------------------------------------------------ *)

\* C35: a run that has written a COMPLETED record writes no CANCELED record
\* after it, whichever key-value store call raises.
C35_CompletedNotOverwritten ==
    \A w \in WorkitemUIDs :
        \A i, j \in 1..Len(trace[w]) :
            (i < j /\ IsCompletedPersist(trace[w][i])) => ~IsCanceledPersist(trace[w][j])

\* C36: a store_workitem call for one workitem leaves the UID of every other
\* workitem in the index, also when the read of the index fails.
C36_StoreKeepsOtherUIDs ==
    [][reply'.op = "store_workitem" =>
         \A u \in Range(index) : u # reply'.uid => u \in Range(index')]_vars

(* ------------------------------------------------------------------ *)
(* The pipeline beside the request handlers                            *)
(* ------------------------------------------------------------------ *)

\* C37: no step of a pipeline run moves the stored state of its workitem
\* from COMPLETED or CANCELED, as a PUT .../state request wrote it during
\* the run, back to IN_PROGRESS.
C37_TerminalNotReplaced ==
    [][\A w \in WorkitemUIDs :
         (StoredState(w) \in Terminal /\ trace'[w] # trace[w])
            => StoredState(w)' # "IN_PROGRESS"]_vars

\* C38: the body of a 200 answer of CreateWorkitem shows state SCHEDULED and
\* no progress information, whenever the handler writes it relative to the
\* steps of the pipeline thread.
C38_CreateAnswerScheduled ==
    (reply.op = "CreateWorkitem" /\ reply.status = "200")
        => /\ reply.body[1].state = "SCHEDULED"
           /\ reply.body[1].progress = <<>>

\* No key-value store call of the step raised: no creation was answered 500
\* and no store_workitem call of a run raised.
KeyValueCallsSucceed ==
    \A w \in WorkitemUIDs :
        /\ pc'[w] # "rejected"
        /\ \A i \in 1..Len(trace'[w]) : ~IsStoreRaised(trace'[w][i])

\* The steps of creation and pipeline in which the key-value store works.
FairNext == PipelineNext /\ KeyValueCallsSucceed

\* One step of the background thread of w.
ThreadStep(w) ==
    \/ Checkpoint(w)
    \/ CallModel(w)
    \/ CheckResponse(w)
    \/ RetrieveSource(w)
    \/ CreateResults(w)
    \/ UploadArtifact(w)
    \/ CompleteWorkitem(w)

\* The node whose pipeline threads are scheduled fairly: every network call
\* of a run returns or raises (each has a timeout), so a thread that can
\* take a step takes one.
FairSpec ==
    Init /\ [][FairNext]_vars /\ \A w \in WorkitemUIDs : WF_vars(ThreadStep(w))

\* C39: every created workitem eventually has COMPLETED or CANCELED as its
\* stored state, if its thread is scheduled fairly, its network calls end
\* and the key-value store calls succeed.
C39_EventuallyTerminal ==
    \A w \in WorkitemUIDs : Created(w) ~> (StoredState(w) \in Terminal)

\* A run without any failure of the store that ended with CANCELED stored
\* after the retrieval failed.
C39_Witness ==
    \E w \in WorkitemUIDs :
        /\ Finished(w)
        /\ StoredState(w) = "CANCELED"
        /\ Count(w, IsRetrieve) = 1
        /\ Count(w, IsStoreRaised) = 0

(* ------------------------------------------------------------------ *)
(* A workitem without retrieval locations                              *)
(* ------------------------------------------------------------------ *)

\* The workitem of w was created with an empty series list.
EmptySeries(w) == wi[w] # <<>> /\ wi[w][1].data.series = 0

\* The inference call of w answered 200 with a body that decodes.
InferenceSucceeded(w) == modelResponse[w].status = "200" /\ modelResponse[w].json

\* The run of w made the inference call and, when that call succeeded,
\* wrote the 10%, 20%, 30% and 50% checkpoints and then CANCELED as its last
\* record, and wrote neither the 70% checkpoint nor COMPLETED.
CanceledForLackOfURLs(w) ==
    /\ Count(w, IsInfer) = 1
    /\ InferenceSucceeded(w) =>
          /\ \A p \in {"10", "20", "30", "50"} : PersistedPercent(w, p)
          /\ IsCanceledPersist(Persisted(w)[Len(Persisted(w))])
          /\ StoredState(w) = "CANCELED"
    /\ ~PersistedPercent(w, "70")
    /\ Count(w, IsCompletedPersist) = 0

ViewerServed(w) ==
    /\ subscribing[w].step = "done"
    /\ <<w, ViewerURL>> \in subs
    /\ ~missed[w]

\* C34: when the run of a workitem has ended and the viewer, having
\* subscribed at any moment of the run, was answered 200 for every
\* notification, the copy the viewer holds is the record the router holds,
\* in its terminal state, whatever the interleaving of the handler's three
\* calls with the steps of the run.
C34_MirrorEndsEqual ==
    \A w \in WorkitemUIDs :
        (Finished(w) /\ ViewerServed(w))
            => /\ mirror[w] = kv[w]
               /\ mirror[w][1].state \in Terminal

====
